---------------------------- MODULE Spec2Model ----------------------------
(***************************************************************************)
(* A model of the T editor core: ranges and their update rule, address     *)
(* evaluation, the optimistic two-phase edit protocol of Editor.do over a  *)
(* shared Buffer, the editor list, and the file-backed byte pager.         *)
(*                                                                         *)
(* Several specifications share the variables below.  Each specification   *)
(* drives one group of variables and leaves the others at their initial    *)
(* value:                                                                  *)
(*   SpecUpdate  addr.update as a pure function            (variable upd)  *)
(*   SpecAddr    address evaluation, Address.where         (variable ev)   *)
(*   Spec        concurrent Editor.do on one Buffer        (editor group)  *)
(*   SpecRetry   Editor.do under simulated seq bumps       (editor group)  *)
(*   SpecClose   NewEditor / Editor.Close / Do             (editor group)  *)
(*   SpecPager   buffer.Bytes insert / delete / Write      (variable pg)   *)
(*   SpecCalls   buffer.Bytes calls outside the buffer     (variable pg)   *)
(*   SpecSeq     Editor.do and Where near the largest seq  (editor group)  *)
(*   SpecRe      regular-expression addresses, re1.Match   (variable ev)   *)
(*   SpecLog     the journal of log.go: push, top, pop     (variable ev)   *)
(*   SpecString  Address.String and Addr, the round trip   (variable ev)   *)
(*   SpecLine    line addresses, lineAddr.fwd and rev      (variable ev)   *)
(*   SpecSolo    Editor.do of one editor alone             (editor group)  *)
(*   SpecReader  runes.LimitedReader over a SliceReader    (variable ev)   *)
(*   SpecFix     fixAddrs and applyChanges on a journal    (variable ev)   *)
(*   SpecMach    re1.Match calls on one cached machine     (variable ev)   *)
(*   SpecCache   concurrent re1.Match calls, the cache     (variable ev)   *)
(*   SpecLock    Do, Where, NewEditor, Close and the lock  (variable ev)   *)
(***************************************************************************)
EXTENDS Integers, Sequences, FiniteSets, TLC

VARIABLES
    upd,      \* SpecUpdate: inputs and result of one addr.update call
    ev,       \* SpecAddr and the other single-call specifications: inputs and result
    text,     \* Buffer.runes: the buffer's contents, a sequence of runes
    seq,      \* Buffer.seq
    eds,      \* Buffer.eds: the editor list, a sequence of editor ids
    who,      \* Buffer.who: the next editor id
    marks,    \* Editor.marks of every editor: a map from mark rune to addr
    pending,  \* Editor.pending of every editor: the journal, a sequence of entries
    pc,       \* where every editor's thread is inside Editor.do
    loc,      \* the locals of every editor's running do: edit, marks, seq, at, err
    hist,     \* history: what the claims need to remember about the run
    pg        \* SpecPager: the Bytes pager, its backing file and a reference sequence

vars == <<upd, ev, text, seq, eds, who, marks, pending, pc, loc, hist, pg>>
edVars == <<text, seq, eds, who, marks, pending, pc, loc, hist>>
otherVars == <<upd, ev, pg>>

None == "none"
NL == "\n"

\* ------------------------------------------------------------------ bounds
MaxPos == 4
MaxN == 2

\* ------------------------------------------------------------------ ranges

Addr(f, t) == [from |-> f, to |-> t]
Pt(p) == Addr(p, p)

\* addr.size
size(a) == a.to - a.from

\* addr.contains
contains(a, p) == a.from <= p /\ p < a.to

\* A variant of update that clips even when b lies within a.
updateAlwaysClip(a, b, n) ==
    LET f1 == IF contains(b, a.from) THEN b.to ELSE a.from
        t1 == IF contains(b, a.to - 1) THEN b.from ELSE a.to
        t2 == IF f1 > t1 THEN f1 ELSE t1
        d == n - size(b)
    IN  Addr(IF f1 >= b.to THEN f1 + d ELSE f1, IF t2 >= b.to THEN t2 + d ELSE t2)

\* A variant of update that moves the end of a only when it is beyond b.
updateStrictMove(a, b, n) ==
    LET clip == a.from >= b.from \/ b.to > a.to
        f1 == IF clip /\ contains(b, a.from) THEN b.to ELSE a.from
        t1 == IF clip /\ contains(b, a.to - 1) THEN b.from ELSE a.to
        t2 == IF clip /\ f1 > t1 THEN f1 ELSE t1
        d == n - size(b)
    IN  Addr(IF f1 >= b.to THEN f1 + d ELSE f1, IF t2 > b.to THEN t2 + d ELSE t2)

\* addr.update: a, updated to account for b changing to size n.
update(a, b, n) ==
    LET clip == a.from >= b.from \/ b.to > a.to
        f1 == IF clip /\ contains(b, a.from) THEN b.to ELSE a.from
        t1 == IF clip /\ contains(b, a.to - 1) THEN b.from ELSE a.to
        t2 == IF clip /\ f1 > t1 THEN f1 ELSE t1
        d == n - size(b)
    IN  Addr(IF f1 >= b.to THEN f1 + d ELSE f1, IF t2 >= b.to THEN t2 + d ELSE t2)

\* The ranges with 0 <= from <= to <= n.
ValidAddrs(n) == {Addr(f, t) : f \in 0..n, t \in 0..n} \ {a \in {Addr(f, t) : f \in 0..n, t \in 0..n} : a.from > a.to}

IsValid(a, n) == 0 <= a.from /\ a.from <= a.to /\ a.to <= n

\* ------------------------------------------------------------------ SpecUpdate

InitOther ==
    /\ text = <<>> /\ seq = 0 /\ eds = <<>> /\ who = 0 /\ marks = <<>>
    /\ pending = <<>> /\ pc = <<>> /\ loc = <<>> /\ hist = None

InitUpdate ==
    /\ \E sz \in 0..MaxPos : \E a \in ValidAddrs(sz), b \in ValidAddrs(sz), n \in 0..MaxN :
          upd = [a |-> a, b |-> b, n |-> n, size |-> sz, done |-> FALSE, res |-> Pt(0)]
    /\ ev = None /\ pg = None
    /\ InitOther

\* One call a.update(b, n).
DoUpdate ==
    /\ ~upd.done
    /\ upd' = [upd EXCEPT !.done = TRUE, !.res = update(upd.a, upd.b, upd.n)]
    /\ UNCHANGED <<ev, pg>> /\ UNCHANGED edVars

NextUpdate == DoUpdate

SpecUpdate == InitUpdate /\ [][NextUpdate]_vars

\* C6: for valid ranges a and b inside [0, size] and n >= 0, a.update(b, n)
\* is a range with 0 <= from <= to <= size + (n - b.size()).
C6_UpdateValid ==
    upd.done => IsValid(upd.res, upd.size + (upd.n - size(upd.b)))

\* C6 witness: an update whose b overlaps the end of a and shrinks the buffer.
C6_Witness ==
    /\ upd.done
    /\ upd.a.from < upd.b.from /\ upd.b.from < upd.a.to /\ upd.a.to < upd.b.to
    /\ upd.n < size(upd.b)

\* The number of positions of a that lie outside b.
Outside(a, b) == Cardinality({p \in a.from..(a.to - 1) : ~contains(b, p)})

\* C7: the size of a.update(b, n) is the number of runes of a outside b,
\* plus n exactly when a.from < b.from and b.to <= a.to.
C7_UpdateSize ==
    upd.done =>
        size(upd.res) = Outside(upd.a, upd.b)
            + (IF upd.a.from < upd.b.from /\ upd.b.to <= upd.a.to THEN upd.n ELSE 0)

\* C7 witness: b lies within a, past its start, and is replaced by new text.
C7_Witness ==
    /\ upd.done
    /\ upd.a.from < upd.b.from /\ upd.b.to < upd.a.to /\ size(upd.b) > 0 /\ upd.n > 0

\* ------------------------------------------------------------------ addresses

\* The runes a text is made of, and the texts of at most n runes.
Runes == {"a", NL}
Texts(n) == UNION {[1..k -> Runes] : k \in 0..n}

\* The mark runes of the model: dot, a letter, and "1", which is no mark rune.
MarkNames == {".", "m"}

\* isMarkRune, on the mark runes of the model.
isMarkRune(r) == r = "m"

\* Editor.marks is a Go map: has is the set of its keys, a holds their values.
\* Reading a missing key yields the zero addr.
NoMarks == [has |-> {}, a |-> [x \in MarkNames |-> Pt(0)]]
Get(mk, m) == IF m \in mk.has THEN mk.a[m] ELSE Pt(0)
Put(mk, m, v) == [has |-> mk.has \cup {m}, a |-> [mk.a EXCEPT ![m] = v]]

\* The address constructors Dot, End, Mark, Rune, Line and the methods
\* Plus, Minus, To, Then.
Dot == [k |-> "dot"]
End == [k |-> "end"]
Mark(r) == [k |-> "mark", m |-> r]
Rune(n) == [k |-> "rune", n |-> n]
Line(n) == IF n < 0 THEN [k |-> "line", neg |-> TRUE, n |-> 0 - n]
           ELSE [k |-> "line", neg |-> FALSE, n |-> n]
Plus(a1, a2) == [k |-> "add", op |-> "+", a1 |-> a1, a2 |-> a2]
Minus(a1, a2) == [k |-> "add", op |-> "-", a1 |-> a1, a2 |-> a2]
To(a1, a2) == [k |-> "compound", op |-> ",", a1 |-> a1, a2 |-> a2]
Then(a1, a2) == [k |-> "compound", op |-> ";", a1 |-> a1, a2 |-> a2]
All == To(Line(0), End)

\* SimpleAddress.reverse
reverse(A) ==
    CASE A.k = "rune" -> Rune(0 - A.n)
      [] A.k = "line" -> [A EXCEPT !.neg = ~A.neg]
      [] OTHER -> A

\* The result of an evaluation: the error ("" for nil, "panic" for a panic),
\* the range, and the editor's marks after it.
Ok(a, mk) == [err |-> "", a |-> a, mk |-> mk]
Fail(e, mk) == [err |-> e, a |-> Pt(0), mk |-> mk]

\* The check of dotAddr.whereFrom and markAddr.whereFrom: a corrupt mark.
badMark(a, n) == a.from < 0 \/ a.to < a.from \/ a.to > n

\* dotAddr.whereFrom
dotWhereFrom(mk, txt) ==
    IF badMark(Get(mk, "."), Len(txt)) THEN Fail("panic", mk) ELSE Ok(Get(mk, "."), mk)

\* endAddr.whereFrom
endWhereFrom(mk, txt) == Ok(Pt(Len(txt)), mk)

\* markAddr.whereFrom
markWhereFrom(m, mk, txt) ==
    IF badMark(Get(mk, m), Len(txt)) THEN Fail("panic", mk)
    ELSE IF ~isMarkRune(m) /\ m # "." THEN Fail("bad mark", mk)
    ELSE Ok(Get(mk, m), mk)

\* runeAddr.whereFrom
runeWhereFrom(n, from, mk, txt) ==
    IF from + n < 0 \/ from + n > Len(txt) THEN Fail("rune address out of range", mk)
    ELSE Ok(Pt(from + n), mk)

\* lineAddr.fwd, first loop: advance to until the rune before it is a newline.
RECURSIVE fwdToEol(_, _)
fwdToEol(to, txt) ==
    IF to < Len(txt) /\ txt[to] # NL THEN fwdToEol(to + 1, txt) ELSE to

\* lineAddr.fwd, second loop: consume n lines.  Yields <<a, n>>.
RECURSIVE fwdLines(_, _, _)
fwdLines(a, n, txt) ==
    IF n > 0 /\ a.to < Len(txt)
    THEN IF txt[a.to + 1] = NL
         THEN fwdLines(Addr(IF n - 1 > 0 THEN a.to + 1 ELSE a.from, a.to + 1), n - 1, txt)
         ELSE fwdLines(Addr(a.from, a.to + 1), n, txt)
    ELSE <<a, n>>

\* lineAddr.fwd with the error for every line that no newline ends.
lineFwdStrict(n, from, mk, txt) ==
    LET to1 == IF from > 0 THEN fwdToEol(from, txt) ELSE from
        a1 == Addr(IF from > 0 /\ n > 0 THEN to1 ELSE from, to1)
        r == fwdLines(a1, n, txt)
    IN  IF r[2] >= 1 THEN Fail("line address out of range", mk) ELSE Ok(r[1], mk)

\* lineAddr.fwd
lineFwd(n, from, mk, txt) ==
    LET to1 == IF from > 0 THEN fwdToEol(from, txt) ELSE from
        a1 == Addr(IF from > 0 /\ n > 0 THEN to1 ELSE from, to1)
        r == fwdLines(a1, n, txt)
    IN  IF r[2] > 1 \/ (r[2] = 1 /\ r[1].to < Len(txt))
        THEN Fail("line address out of range", mk)
        ELSE Ok(r[1], mk)

\* lineAddr.rev, first and last loop: move from back to the start of its line.
RECURSIVE revToBol(_, _)
revToBol(from, txt) ==
    IF from > 0 /\ txt[from] # NL THEN revToBol(from - 1, txt) ELSE from

\* The second loop of lineAddr.rev with a.to = a.from after a newline, so
\* that the line is left without the newline that ends it.
RECURSIVE revLinesOpen(_, _, _)
revLinesOpen(a, n, txt) ==
    IF n > 0 /\ a.from > 0
    THEN IF txt[a.from] = NL
         THEN revLinesOpen(Addr(a.from - 1, a.from - 1), n - 1, txt)
         ELSE revLinesOpen(Addr(a.from - 1, IF a.from - 1 = 0 THEN 0 ELSE a.to), n, txt)
    ELSE <<a, n>>

\* lineAddr.rev, second loop: consume n lines backwards.  Yields <<a, n>>.
RECURSIVE revLines(_, _, _)
revLines(a, n, txt) ==
    IF n > 0 /\ a.from > 0
    THEN IF txt[a.from] = NL
         THEN revLines(Addr(a.from - 1, a.from), n - 1, txt)
         ELSE revLines(Addr(a.from - 1, IF a.from - 1 = 0 THEN 0 ELSE a.to), n, txt)
    ELSE <<a, n>>

\* lineAddr.rev
lineRev(n, from, mk, txt) ==
    LET f1 == IF from < Len(txt) THEN revToBol(from, txt) ELSE from
        a1 == Addr(f1, IF from < Len(txt) THEN f1 ELSE from)
        r == revLines(a1, n, txt)
    IN  IF r[2] > 1 THEN Fail("line address out of range", mk)
        ELSE Ok(Addr(revToBol(r[1].from, txt), r[1].to), mk)

\* lineAddr.whereFrom
lineWhereFrom(A, from, mk, txt) ==
    IF A.neg THEN lineRev(A.n, from, mk, txt) ELSE lineFwd(A.n, from, mk, txt)

\* The range of a ',' or ';' address from the ranges of its operands.
compoundRange(a1, a2) == Addr(a1.from, a2.to)

\* whereFrom of every kind of address: simpAddrImpl.whereFrom,
\* addAddr.whereFrom and compoundAddr.whereFrom.
RECURSIVE whereFrom(_, _, _, _)
whereFrom(A, from, mk, txt) ==
    CASE A.k = "dot" -> dotWhereFrom(mk, txt)
      [] A.k = "end" -> endWhereFrom(mk, txt)
      [] A.k = "mark" -> markWhereFrom(A.m, mk, txt)
      [] A.k = "rune" -> runeWhereFrom(A.n, from, mk, txt)
      [] A.k = "line" -> lineWhereFrom(A, from, mk, txt)
      [] A.k = "add" ->
            LET r1 == whereFrom(A.a1, from, mk, txt)
            IN  IF r1.err # "" THEN r1
                ELSE IF A.op = "+" THEN whereFrom(A.a2, r1.a.to, r1.mk, txt)
                ELSE whereFrom(reverse(A.a2), r1.a.from, r1.mk, txt)
      [] A.k = "compound" ->
            LET r1 == whereFrom(A.a1, from, mk, txt)
            IN  IF r1.err # "" THEN r1
                ELSE IF A.op = ","
                THEN LET r2 == whereFrom(A.a2, from, r1.mk, txt)
                     IN  IF r2.err # "" THEN r2
                         ELSE Ok(compoundRange(r1.a, r2.a), r2.mk)
                ELSE LET origDot == Get(r1.mk, ".")
                         r2 == whereFrom(A.a2, r1.a.to, Put(r1.mk, ".", r1.a), txt)
                     IN  IF r2.err = "panic" THEN r2
                         ELSE IF r2.err # "" THEN Fail(r2.err, Put(r2.mk, ".", origDot))
                         ELSE Ok(compoundRange(r1.a, r2.a), r2.mk)

\* Address.where
where(A, mk, txt) == whereFrom(A, 0, mk, txt)

\* ------------------------------------------------------------------ SpecAddr

MaxTextLen == 3
MaxRune == 1
MaxLine == 1

\* The simple addresses, the additive addresses over them, and the compound
\* addresses over those, that the specifications draw from.
SimpleAddrs ==
    {Dot, End, Mark("m"), Mark("1")}
        \cup {Rune(n) : n \in (0 - MaxRune)..MaxRune}
        \cup {Line(n) : n \in (0 - MaxLine)..MaxLine}
AddAddrs == {Plus(x, y) : x, y \in SimpleAddrs} \cup {Minus(x, y) : x, y \in SimpleAddrs}
CompoundAddrs ==
    {To(x, y) : x, y \in SimpleAddrs} \cup {Then(x, y) : x, y \in SimpleAddrs}
        \cup {To(Then(x, End), Rune(n)) : x \in SimpleAddrs, n \in {0, MaxRune + MaxTextLen}}
        \cup {Then(Then(Rune(0), x), Rune(n)) : x \in SimpleAddrs, n \in {0, MaxRune + MaxTextLen}}
        \cup {Then(Plus(Dot, Rune(1)), x) : x \in SimpleAddrs}
Addrs == SimpleAddrs \cup AddAddrs \cup CompoundAddrs

InitAddr ==
    /\ \E txt \in Texts(MaxTextLen) :
       \E A \in Addrs, d \in ValidAddrs(Len(txt)), m \in {Pt(0), Addr(0, Len(txt))} :
          ev = [A |-> A, text |-> txt, mk |-> Put(Put(NoMarks, ".", d), "m", m),
                done |-> FALSE, res |-> Ok(Pt(0), NoMarks)]
    /\ upd = None /\ pg = None
    /\ InitOther

\* One call A.where(ed), as Editor.Where makes it.
DoWhere ==
    /\ ~ev.done
    /\ ev' = [ev EXCEPT !.done = TRUE, !.res = where(ev.A, ev.mk, ev.text)]
    /\ UNCHANGED <<upd, pg>> /\ UNCHANGED edVars

NextAddr == DoWhere

SpecAddr == InitAddr /\ [][NextAddr]_vars

\* C8: every address that evaluates without error yields a range with
\* 0 <= from <= to <= size of the buffer.
C8_AddrIsRange ==
    (ev.done /\ ev.res.err = "") => IsValid(ev.res.a, Len(ev.text))

\* ------------------------------------------------------------------ editors

MaxSeq == 2

\* The editors: two of them share the buffer.
EdIds == {1, 2}

\* A journal entry: the range at of the buffer that changes, the size of the
\* new text, and the new text itself.
Entry(at, str) == [at |-> at, size |-> Len(str), data |-> str]

\* pend: append the change of at to str to the editor's pending log.
pend(log, at, str) == Append(log, Entry(at, str))

\* The edits Change, Append, Insert and Delete.
Change(A, str) == [op |-> "c", a |-> A, str |-> str]
AppendEd(A, str) == [op |-> "a", a |-> A, str |-> str]
InsertEd(A, str) == [op |-> "i", a |-> A, str |-> str]
Delete(A) == [op |-> "d", a |-> A, str |-> <<>>]

\* change.do, phase one of Change, Append, Insert and Delete: evaluate the
\* address and pend the change.  Yields the error, the range, the editor's
\* marks after the evaluation, and the pending log.
changeDo(E, mk, txt) ==
    LET A == CASE E.op = "a" -> Plus(E.a, Rune(0))
               [] E.op = "i" -> Minus(E.a, Rune(0))
               [] OTHER -> E.a
        r == where(A, mk, txt)
    IN  IF r.err # "" THEN [err |-> r.err, at |-> Pt(0), mk |-> r.mk, log |-> <<>>]
        ELSE [err |-> "", at |-> r.a, mk |-> r.mk, log |-> pend(<<>>, r.a, E.str)]

\* An inSequence that accepts every journal.
inSequenceNever(l) == TRUE

\* inSequence: no entry starts before the end of the entry before it,
\* unless the two are the same.
inSequence(l) ==
    \A i \in 1..(Len(l) - 1) : ~(l[i + 1].at # l[i].at /\ l[i + 1].at.from < l[i].at.to)

\* A fixAddrs inner loop that leaves the later entries in phase-one coordinates.
fixLaterNone(l, i) == l

\* fixAddrs, inner loop: update the entries after entry i for the change of entry i.
fixLater(l, i) ==
    [k \in 1..Len(l) |-> IF k > i THEN [l[k] EXCEPT !.at = update(l[k].at, l[i].at, l[i].size)]
                         ELSE l[k]]

\* fixAddrs without the special case of an entry that starts where at starts.
fixAtPlain(at, e) == update(at, e.at, e.size)

\* fixAddrs, the update of at for one entry e: if they have the same from,
\* grow at; else update it.
fixAt(at, e) ==
    IF e.at.from = at.from THEN Addr(at.from, update(at, e.at, e.size).to)
    ELSE update(at, e.at, e.size)

\* fixAddrs, outer loop from entry i on.  Yields <<at, log>>.
RECURSIVE fixFrom(_, _, _)
fixFrom(at, l, i) ==
    IF i > Len(l) THEN <<at, l>>
    ELSE fixFrom(fixAt(at, l[i]), fixLater(l, i), i + 1)

\* fixAddrs
fixAddrs(at, l) ==
    IF ~inSequence(l) THEN [err |-> "changes not in sequence", at |-> Pt(0), log |-> l]
    ELSE [err |-> "", at |-> fixFrom(at, l, 1)[1], log |-> fixFrom(at, l, 1)[2]]

\* Buffer.change without the update of the marks.
updateMarksNone(mk, at, n) == mk

\* The update of all the marks of one editor, in Buffer.change.
updateMarks(mk, at, n) ==
    [has |-> mk.has,
     a |-> [m \in MarkNames |-> IF m \in mk.has THEN update(mk.a[m], at, n) ELSE mk.a[m]]]

\* The loop of Buffer.change over buf.eds.
RECURSIVE changeMarks(_, _, _, _)
changeMarks(mks, edList, at, n) ==
    IF edList = <<>> THEN mks
    ELSE changeMarks([mks EXCEPT ![Head(edList)] = updateMarks(@, at, n)], Tail(edList), at, n)

\* txt with the runes of [f, t) replaced by str.
Splice(txt, f, t, str) == SubSeq(txt, 1, f) \o str \o SubSeq(txt, t + 1, Len(txt))

\* Buffer.change: delete the runes of at, insert the new ones, update the marks
\* of every editor of the list.  Delete fails on a negative count or a range
\* outside the buffer, and then nothing has changed.
change(txt, mks, edList, e) ==
    IF size(e.at) < 0 \/ e.at.from < 0 \/ e.at.from + size(e.at) > Len(txt)
    THEN [err |-> "delete", text |-> txt, marks |-> mks]
    ELSE [err |-> "", text |-> Splice(txt, e.at.from, e.at.to, e.data),
          marks |-> changeMarks(mks, edList, e.at, Len(e.data))]

\* The loop of applyChanges over the pending log, from entry i on.
RECURSIVE applyEntries(_, _, _, _, _)
applyEntries(l, i, txt, mks, edList) ==
    IF i > Len(l) THEN [err |-> "", text |-> txt, marks |-> mks]
    ELSE LET r == change(txt, mks, edList, l[i])
         IN  IF r.err # "" THEN r ELSE applyEntries(l, i + 1, r.text, r.marks, edList)

\* The largest value of the buffer's seq, an int32.
MaxInt32 == 2147483647

\* seq++ on an int32: the increment wraps around.
inc32(n) == IF n = MaxInt32 THEN -MaxInt32 - 1 ELSE n + 1

\* The locals of an editor that is not inside do.  E is the edit, marks the
\* copy of the marks made at the label retry, seq and at the results of phase
\* one.  The other fields record, for the properties, the state before the
\* call, whether another editor committed during the call, whether the call
\* retried, and the text, the range and the number of commits that phase one
\* saw.  A local that the code writes again before it reads it is put back
\* to its value of LocIdle.
LocIdle ==
    [E |-> Delete(Dot), marks |-> NoMarks, seq |-> 0, at |-> Pt(0), err |-> "", phase |-> 0,
     pre |-> [text |-> <<>>, seq |-> 0, marks |-> NoMarks], foreign |-> FALSE,
     retried |-> FALSE, p1text |-> <<>>, p1at |-> Pt(0), p1n |-> 0]

\* The process died of a panic or of a fatal error of the runtime.
Crashed == \E e \in DOMAIN pc : pc[e] = "crashed"

\* The process dies: nothing of the editors is left but the state of the
\* buffer at that moment.
Crash ==
    /\ pc' = [x \in DOMAIN pc |-> "crashed"]
    /\ loc' = [x \in DOMAIN pc |-> LocIdle]
    /\ pending' = [x \in DOMAIN pc |-> <<>>]

\* The editors of the buffer's editor list.
Registered == {eds[i] : i \in 1..Len(eds)}

\* Editor.Do is called with edit E: do starts.
Begin(e, E) ==
    /\ ~Crashed
    /\ pc[e] = "idle"
    /\ hist.n < MaxSeq
    /\ pc' = [pc EXCEPT ![e] = "snap"]
    /\ loc' = [loc EXCEPT ![e] = [LocIdle EXCEPT !.E = E,
                   !.pre = [text |-> text, seq |-> seq, marks |-> marks[e]]]]
    /\ UNCHANGED <<text, seq, eds, who, marks, pending, hist>>
    /\ UNCHANGED otherVars

\* do, at the label retry: copy the editor's marks.  No lock is held.
Snapshot(e) ==
    /\ ~Crashed
    /\ pc[e] = "snap"
    /\ loc' = [loc EXCEPT ![e].marks = marks[e]]
    /\ pc' = [pc EXCEPT ![e] = "pend"]
    /\ UNCHANGED <<text, seq, eds, who, marks, pending, hist>>
    /\ UNCHANGED otherVars

\* The state after pendChanges and fixAddrs of editor e, when phase one read
\* sequence number sq: the pending log is cleared, f runs with the RLock held,
\* then fixAddrs runs.
afterPend(e, sq) ==
    LET r == changeDo(loc[e].E, marks[e], text)
        fx == fixAddrs(r.at, r.log)
        err == IF r.err # "" THEN r.err ELSE fx.err
    IN  [pc |-> IF r.err = "panic" THEN "crashed" ELSE IF err # "" THEN "ret" ELSE "apply",
         marks |-> r.mk,
         log |-> IF r.err # "" THEN r.log ELSE fx.log,
         loc |-> [loc[e] EXCEPT !.seq = sq, !.at = IF err # "" THEN Pt(0) ELSE fx.at,
                     !.err = err, !.phase = 1,
                     !.p1text = text, !.p1at = r.at, !.p1n = hist.n]]

\* pendChanges and fixAddrs.
PendChanges(e) ==
    /\ ~Crashed
    /\ pc[e] = "pend"
    /\ LET r == afterPend(e, seq)
       IN  IF r.pc = "crashed"
           THEN Crash /\ UNCHANGED marks
           ELSE /\ pc' = [pc EXCEPT ![e] = r.pc]
                /\ marks' = [marks EXCEPT ![e] = r.marks]
                /\ pending' = [pending EXCEPT ![e] = r.log]
                /\ loc' = [loc EXCEPT ![e] = r.loc]
    /\ UNCHANGED <<text, seq, eds, who, hist>>
    /\ UNCHANGED otherVars

\* applyChanges without the comparison of the sequence numbers.
seqChangedNever(e) == FALSE

\* applyChanges: the buffer changed since phase one of editor e.
seqChanged(e) == seq # loc[e].seq

\* An applyChanges that runs its loop over the pending log before it compares
\* the buffer's seq with the seq of phase one.
ApplyChangesFirst(e) ==
    /\ ~Crashed
    /\ pc[e] = "apply"
    /\ text' = applyEntries(pending[e], 1, text, marks, eds).text
    /\ marks' = applyEntries(pending[e], 1, text, marks, eds).marks
    /\ pc' = [pc EXCEPT ![e] = IF seqChanged(e) THEN "snap" ELSE "setdot"]
    /\ seq' = IF seqChanged(e) THEN seq ELSE inc32(seq)
    /\ UNCHANGED <<eds, who, pending, loc, hist>>
    /\ UNCHANGED otherVars

\* applyChanges, with the Lock held: retry if the buffer changed since phase
\* one; else apply the pending log and increment seq.
ApplyChanges(e) ==
    /\ ~Crashed
    /\ pc[e] = "apply"
    /\ IF seqChanged(e)
       THEN /\ pc' = [pc EXCEPT ![e] = "snap"]
            /\ loc' = [loc EXCEPT ![e] = [LocIdle EXCEPT !.E = loc[e].E, !.marks = loc[e].marks,
                                              !.pre = loc[e].pre, !.foreign = loc[e].foreign,
                                              !.retried = TRUE]]
            /\ UNCHANGED <<text, seq, marks, hist>>
       ELSE LET r == applyEntries(pending[e], 1, text, marks, eds)
            IN  /\ text' = r.text
                /\ marks' = r.marks
                /\ IF r.err # ""
                   THEN /\ pc' = [pc EXCEPT ![e] = "ret"]
                        /\ loc' = [loc EXCEPT ![e].err = r.err, ![e].phase = 2]
                        /\ UNCHANGED <<seq, hist>>
                   ELSE /\ pc' = [pc EXCEPT ![e] = "setdot"]
                        /\ seq' = inc32(seq)
                        /\ loc' = [x \in DOMAIN pc |->
                                     IF x = e
                                     THEN [loc[x] EXCEPT !.pre = LocIdle.pre, !.p1text = <<>>,
                                                         !.marks = NoMarks]
                                     ELSE IF pc[x] \in {"snap", "pend", "apply", "setdot", "ret"}
                                     THEN [loc[x] EXCEPT !.foreign = TRUE, !.pre = LocIdle.pre]
                                     ELSE loc[x]]
                        /\ hist' = [hist EXCEPT
                                      !.n = @ + 1,
                                      !.serial = Splice(@, loc[e].p1at.from,
                                                        loc[e].p1at.to, loc[e].E.str)]
    /\ UNCHANGED <<eds, who, pending>>
    /\ UNCHANGED otherVars

\* do, after the commit: ed.marks['.'] = at, and return.  No lock is held.
SetDot(e) ==
    /\ ~Crashed
    /\ pc[e] = "setdot"
    /\ marks' = [marks EXCEPT ![e] = Put(@, ".", loc[e].at)]
    /\ pc' = [pc EXCEPT ![e] = "idle"]
    /\ loc' = [loc EXCEPT ![e] = LocIdle]
    /\ UNCHANGED <<text, seq, eds, who, pending, hist>>
    /\ UNCHANGED otherVars

\* The marks an editor is left with when do returns an error, if the deferred
\* function did not put back the copy.
keptMarks(e) == marks[e]

\* The marks an editor is left with when do returns an error: the deferred
\* function sets ed.marks to the copy made at the label retry.
restoredMarks(e) == loc[e].marks

\* do returns an error: the deferred function runs.  No lock is held.
Return(e) ==
    /\ ~Crashed
    /\ pc[e] = "ret"
    /\ marks' = [marks EXCEPT ![e] = restoredMarks(e)]
    /\ pc' = [pc EXCEPT ![e] = "idle"]
    /\ loc' = [loc EXCEPT ![e] = LocIdle]
    /\ UNCHANGED <<text, seq, eds, who, pending, hist>>
    /\ UNCHANGED otherVars

\* Editor e copies its marks at the label retry, or sets its dot after its
\* commit, without a lock, while the commit of another editor f updates the
\* marks of e in Buffer.change: the two accesses of the map of e are not
\* ordered, and the runtime may stop the process with a fatal error
\* (concurrent map writes, concurrent map iteration and map write).  The
\* outcomes in which the process goes on are the two orders of the steps.
Race(e) ==
    /\ ~Crashed
    /\ pc[e] \in {"snap", "setdot"}
    /\ e \in Registered
    /\ marks[e].has # {}
    /\ \E f \in DOMAIN pc \ {e} :
          /\ pc[f] = "apply"
          /\ ~seqChanged(f)
          /\ pending[f] # <<>>
          /\ change(text, marks, eds, pending[f][1]).err = ""
    /\ Crash
    /\ UNCHANGED <<text, seq, eds, who, marks, hist>>
    /\ UNCHANGED otherVars

\* ------------------------------------------------------------------ Spec

\* The texts the buffer starts with.
InitTexts == {<<"a", NL, "a">>}

\* A rune address out of range of every text the buffer of Spec comes to hold.
FarRune == MaxTextLen + MaxSeq + 1

\* The edits the editors of Spec choose from.
EdEdits ==
    { Delete(All),
      Change(Rune(1), <<"a">>),
      Change(Dot, <<NL>>),
      Change(To(Then(Rune(1), End), Rune(FarRune)), <<"a">>),
      Change(To(End, Rune(0)), <<"a">>) }

\* A buffer holding a text, and two editors on it with dot at #0
\* (as NewBuffer, NewEditor and the set-up of the tests leave them).
Init ==
    /\ text \in InitTexts
    /\ seq = 0
    /\ eds = <<1, 2>>
    /\ who = 2
    /\ marks = [e \in EdIds |-> Put(NoMarks, ".", Pt(0))]
    /\ pending = [e \in EdIds |-> <<>>]
    /\ pc = [e \in EdIds |-> "idle"]
    /\ loc = [e \in EdIds |-> LocIdle]
    /\ hist = [n |-> 0, serial |-> text]
    /\ upd = None /\ ev = None /\ pg = None

Next ==
    \E e \in EdIds :
        \/ \E E \in EdEdits : Begin(e, E)
        \/ Snapshot(e)
        \/ PendChanges(e)
        \/ ApplyChanges(e)
        \/ SetDot(e)
        \/ Return(e)
        \/ Race(e)

Spec == Init /\ [][Next]_vars

\* No Do is in progress.
Quiescent == \A e \in EdIds : pc[e] = "idle"

\* Every mark of editor e is a range of the buffer.
MarksValid(e) == \A m \in marks[e].has : IsValid(marks[e].a[m], Len(text))

\* C2: with two editors running Do in any interleaving, whenever no Do is in
\* progress every mark of every registered editor, dot included, satisfies
\* 0 <= from <= to <= size of the buffer.
C2_MarksValidAtRest ==
    Quiescent => \A e \in Registered : MarksValid(e)

\* Editor e commits in this step.
Commits(e) == pc[e] = "apply" /\ pc'[e] = "setdot"

\* C1: with several editors running Do concurrently on one buffer, every
\* commit applies a journal that its phase one computed against exactly the
\* text present at apply time, no other commit having happened since that
\* phase one read seq; so the text is always the committed edits applied one
\* after the other in the order of their seq increments.
C1_CommitsSerial ==
    /\ [](hist.serial = text)
    /\ [][\A e \in DOMAIN pc :
            Commits(e) => (loc[e].p1n = hist.n /\ loc[e].p1text = text /\ seq' = loc[e].seq + 1)]_vars

\* An editor has committed after a retry that a commit of the other editor
\* forced on it.
C1_Witness ==
    \E e \in DOMAIN pc : pc[e] = "setdot" /\ loc[e].retried /\ loc[e].foreign /\ hist.n >= 2

\* do returns an error of phase one to editor e in this step, and no other
\* editor committed during the call.
FailsAlone(e) ==
    pc[e] = "ret" /\ pc'[e] = "idle" /\ loc[e].phase = 1 /\ ~loc[e].foreign

\* C4: when phase one of Do returns an error and no other editor commits
\* during the call, the text, the buffer's seq and all the marks of the
\* calling editor, dot included, are as they were before the call.
C4_ErrorRestores ==
    [][\A e \in DOMAIN pc :
         FailsAlone(e) => (text' = loc[e].pre.text /\ seq' = loc[e].pre.seq
                           /\ marks'[e] = loc[e].pre.marks)]_vars

\* Phase one has failed after it set the editor's dot, in a call during which
\* no other editor committed: do is about to return the error.
C4_Witness ==
    \E e \in DOMAIN pc :
        /\ pc[e] = "ret" /\ loc[e].phase = 1 /\ ~loc[e].foreign /\ loc[e].err # ""
        /\ marks[e] # loc[e].pre.marks

\* C9: a committed change(a, s) on text T, where a evaluates to [f, t),
\* leaves the text T[0:f] + s + T[t:] and sets the editor's dot to
\* (f, f+|s|); with s empty (delete) dot is the point (f, f).
C9_ChangeEffect ==
    [][\A e \in DOMAIN pc :
         loc[e].E.op \in {"c", "d"} =>
            /\ Commits(e) => text' = Splice(text, loc[e].p1at.from, loc[e].p1at.to, loc[e].E.str)
            /\ (pc[e] = "setdot" /\ pc'[e] = "idle") =>
                  Get(marks'[e], ".") = Addr(loc[e].p1at.from, loc[e].p1at.from + Len(loc[e].E.str))]_vars

\* A change of a range that is not empty to a text that is not empty has
\* committed, and a delete has.
C9_Witness ==
    \E e \in DOMAIN pc :
        /\ pc[e] = "setdot" /\ loc[e].E.op = "c"
        /\ size(loc[e].p1at) > 0 /\ Len(loc[e].E.str) > 0
        /\ loc[e].p1at.from > 0

\* ------------------------------------------------------------------ SpecRetry

MaxBumps == 2

\* The edits of SpecRetry; the first is the edit of TestRetry.
RetryEdits ==
    { Change(All, <<"a">>),
      Delete(Dot),
      AppendEd(Dot, <<NL>>),
      Change(Rune(1), <<"a">>),
      Change(Then(Plus(Dot, Rune(1)), Rune(0)), <<"a">>) }

\* do run once on text txt by the only editor of the buffer, with marks mk
\* and nothing else going on: the error of the call and the text it leaves.
doAlone(E, mk, txt) ==
    LET r == changeDo(E, mk, txt)
        fx == fixAddrs(r.at, r.log)
        ap == applyEntries(fx.log, 1, txt, <<r.mk>>, <<1>>)
    IN  IF r.err # "" THEN [err |-> r.err, text |-> txt]
        ELSE IF fx.err # "" THEN [err |-> fx.err, text |-> txt]
        ELSE [err |-> ap.err, text |-> ap.text]

\* One editor on a buffer, as in TestRetry: the edit E and the number k of
\* simulated foreign commits are chosen at the start; alone is what E does
\* when nothing interferes, runs counts the runs of phase one.
InitRetry ==
    /\ text \in Texts(MaxTextLen - 1)
    /\ seq = 0
    /\ eds = <<1>>
    /\ who = 1
    /\ \E d \in ValidAddrs(Len(text)) : marks = [e \in {1} |-> Put(NoMarks, ".", d)]
    /\ pending = [e \in {1} |-> <<>>]
    /\ pc = [e \in {1} |-> "idle"]
    /\ loc = [e \in {1} |-> LocIdle]
    /\ \E E \in RetryEdits, k \in 0..MaxBumps :
          hist = [n |-> 0, serial |-> text, E |-> E, k |-> k, runs |-> 0,
                  alone |-> doAlone(E, marks[1], text)]
    /\ upd = None /\ ev = None /\ pg = None

\* The one call of do.
BeginRetry(e) ==
    /\ hist.runs = 0
    /\ Begin(e, hist.E)

\* pendChanges with the function of TestRetry as phase one: with the RLock
\* held and seq read, it increments the buffer's seq while fewer than k
\* foreign commits have been simulated, then runs the edit's phase one.
PendChangesBumped(e) ==
    /\ ~Crashed
    /\ pc[e] = "pend"
    /\ seq' = IF seq < hist.k THEN inc32(seq) ELSE seq
    /\ hist' = [hist EXCEPT !.runs = @ + 1]
    /\ LET r == afterPend(e, seq)
       IN  IF r.pc = "crashed"
           THEN Crash /\ UNCHANGED marks
           ELSE /\ pc' = [pc EXCEPT ![e] = r.pc]
                /\ marks' = [marks EXCEPT ![e] = r.marks]
                /\ pending' = [pending EXCEPT ![e] = r.log]
                /\ loc' = [loc EXCEPT ![e] = r.loc]
    /\ UNCHANGED <<text, eds, who>>
    /\ UNCHANGED otherVars

NextRetry ==
    \/ BeginRetry(1)
    \/ Snapshot(1)
    \/ PendChangesBumped(1)
    \/ ApplyChanges(1)
    \/ SetDot(1)
    \/ Return(1)

SpecRetry == InitRetry /\ [][NextRetry]_vars

\* The call of do has returned.
RetryDone == pc[1] = "idle" /\ hist.runs > 0

\* C3: if seq advances between phase one and phase two of exactly the first k
\* attempts of an edit that succeeds when run alone, do runs phase one k+1
\* times, commits exactly once without an error, and leaves the text that the
\* same edit leaves when run once without contention.
C3_RetryAsAlone ==
    (RetryDone /\ hist.alone.err = "") =>
        (hist.runs = hist.k + 1 /\ hist.n = 1 /\ text = hist.alone.text)

\* ------------------------------------------------------------------ SpecClose

\* The editors that SpecClose can create.
CloseIds == {1, 2, 3}

\* The edits the editors of SpecClose choose from.
CloseEdits == {Change(Rune(1), <<"a">>), Delete(All)}

\* NewEditor, with the Lock held: a new editor with no marks and an empty
\* pending log is appended to the buffer's editor list.
NewEditor(e) ==
    /\ ~Crashed
    /\ pc[e] = "new"
    /\ e = who + 1
    /\ who' = who + 1
    /\ eds' = Append(eds, e)
    /\ marks' = [marks EXCEPT ![e] = NoMarks]
    /\ pending' = [pending EXCEPT ![e] = <<>>]
    /\ pc' = [pc EXCEPT ![e] = "idle"]
    /\ UNCHANGED <<text, seq, loc, hist>>
    /\ UNCHANGED otherVars

\* Close: the index of the first element of the list that is e.
indexOf(l, e) == CHOOSE i \in 1..Len(l) : l[i] = e /\ \A j \in 1..(i - 1) : l[j] # e

\* Close: append(eds[:i], eds[:i+1]...) for the element at position i, the
\* first position being 1 here: the elements before it, followed by the
\* elements up to and including it.
closeList(l, i) == SubSeq(l, 1, i - 1) \o SubSeq(l, 1, i)

\* Editor.Close, with the Lock held: if the editor is in the list, the list
\* is replaced and the pending log is closed; else the error "already closed"
\* is returned and nothing changes.
Close(e) ==
    /\ ~Crashed
    /\ pc[e] = "idle"
    /\ IF e \in Registered
       THEN /\ eds' = closeList(eds, indexOf(eds, e))
            /\ pending' = [pending EXCEPT ![e] = <<>>]
            /\ pc' = [pc EXCEPT ![e] = "closed"]
       ELSE UNCHANGED <<eds, pending, pc>>
    /\ UNCHANGED <<text, seq, who, marks, loc, hist>>
    /\ UNCHANGED otherVars

\* Editor.Do is called while no other call is in progress.
BeginSerial(e, E) ==
    /\ \A x \in DOMAIN pc : pc[x] \in {"new", "idle", "closed"}
    /\ Begin(e, E)

\* A buffer holding a text, with no editor yet.
InitClose ==
    /\ text \in InitTexts
    /\ seq = 0
    /\ eds = <<>>
    /\ who = 0
    /\ marks = [e \in CloseIds |-> NoMarks]
    /\ pending = [e \in CloseIds |-> <<>>]
    /\ pc = [e \in CloseIds |-> "new"]
    /\ loc = [e \in CloseIds |-> LocIdle]
    /\ hist = [n |-> 0, serial |-> text]
    /\ upd = None /\ ev = None /\ pg = None

NextClose ==
    \E e \in CloseIds :
        \/ NewEditor(e)
        \/ Close(e)
        \/ \E E \in CloseEdits : BeginSerial(e, E)
        \/ Snapshot(e)
        \/ PendChanges(e)
        \/ ApplyChanges(e)
        \/ SetDot(e)
        \/ Return(e)

SpecClose == InitClose /\ [][NextClose]_vars

\* The editors created and not closed, in the order of their creation.
OpenList == SelectSeq([i \in 1..who |-> i], LAMBDA x : pc[x] # "closed")

\* C10: after Editor.Close has returned nil, that editor is no longer in the
\* buffer's editor list, and every other registered editor is still in the
\* list exactly once and in the same relative order: the list is the list of
\* the open editors, whose marks later commits then update.
C10_ListIsOpenEditors ==
    ~Crashed => eds = OpenList

\* ------------------------------------------------------------------ the pager

\* A Bytes buffer is a record P: blockSize; blocks, the blocks in order, each
\* with its offset start in the file and its number n of bytes; free, the
\* offsets of the free blocks; end, the end of the allocated part of the
\* file; cached, the index of the cached block, 0 for none (the indexes of
\* the blocks start at 1 here, so this is the -1 of the code); cache, the
\* blockSize bytes of the cache; dirty; size; file, the bytes of the backing
\* file; err, "" unless an operation panicked; ret, the error that the last
\* insert, delete, Write or Read returned.  Offsets in the buffer, in the
\* cache and in the file start at 0 as in the code.  Each function of the
\* code is an operator of the same name; where the function goes on with the
\* result of a call, the rest of it is the operator that the result is
\* handed to.

Min(a, b) == IF a < b THEN a ELSE b

\* The slice s with x inserted so as to be its element i.
insertElem(s, i, x) == SubSeq(s, 1, i - 1) \o <<x>> \o SubSeq(s, i, Len(s))

\* The slice s without its element i.
removeElem(s, i) == SubSeq(s, 1, i - 1) \o SubSeq(s, i + 1, Len(s))

\* The errors that the operations return: nil, AddressError, CountError and
\* io.EOF.  Point(at) is the address that the code makes of the offset at.
NoErr == [k |-> "nil"]
Point(at) == [point |-> at]
AddressError(a) == [k |-> "AddressError", at |-> a]
CountError(n) == [k |-> "CountError", n |-> n]
EOF == [k |-> "io.EOF"]

\* NewBytes
NewBytes(blockSize) ==
    [blockSize |-> blockSize, blocks |-> <<>>, free |-> <<>>, end |-> 0, cached |-> 0,
     cache |-> [k \in 1..blockSize |-> 0], dirty |-> FALSE, size |-> 0, file |-> <<>>,
     err |-> "", ret |-> NoErr]

\* File.WriteAt: the file grows to hold the data, bytes never written are 0.
fileWriteAt(file, data, start) ==
    IF data = <<>> THEN file
    ELSE [k \in 1..(IF Len(file) > start + Len(data) THEN Len(file) ELSE start + Len(data)) |->
            IF k > start /\ k <= start + Len(data) THEN data[k - start]
            ELSE IF k <= Len(file) THEN file[k] ELSE 0]

\* put: write the cached block back to the file if it is dirty.
put(P) ==
    IF P.cached = 0 \/ ~P.dirty \/ Len(P.cache) = 0 THEN P
    ELSE IF P.cached > Len(P.blocks) THEN [P EXCEPT !.err = "index out of range"]
    ELSE [P EXCEPT !.file = fileWriteAt(P.file, SubSeq(P.cache, 1, P.blocks[P.cached].n),
                                          P.blocks[P.cached].start),
                   !.dirty = FALSE]

\* get, after put: read block i from the file into the cache.  Reading past
\* the end of the file panics.
load(Q, i) ==
    IF Q.err # "" THEN Q
    ELSE IF Q.blocks[i].n > 0 /\ Q.blocks[i].start + Q.blocks[i].n > Len(Q.file)
    THEN [Q EXCEPT !.err = "unexpected EOF"]
    ELSE [Q EXCEPT !.cache = [k \in 1..Len(Q.cache) |->
                                IF k <= Q.blocks[i].n THEN Q.file[Q.blocks[i].start + k]
                                ELSE Q.cache[k]],
                   !.cached = i, !.dirty = FALSE]

\* A get that loads the cache without writing a dirty cached block back.
getUnflushed(P, i) == IF P.cached = i THEN P ELSE load(P, i)

\* get: load the cache with block i.
get(P, i) == IF P.cached = i THEN P ELSE load(put(P), i)

\* allocBlock without the free list: every block is a new one at the end of
\* the file.
allocBlockFresh(P) ==
    [P |-> [P EXCEPT !.end = P.end + P.blockSize], blk |-> [start |-> P.end, n |-> 0]]

\* An allocBlock that leaves the block it returns in the free list.
allocBlockPeek(P) ==
    IF Len(P.free) > 0
    THEN [P |-> P, blk |-> [start |-> P.free[Len(P.free)], n |-> 0]]
    ELSE [P |-> [P EXCEPT !.end = P.end + P.blockSize], blk |-> [start |-> P.end, n |-> 0]]

\* allocBlock: the last free block if there is one, else a new one at the end
\* of the file.  Yields the buffer and the block.
allocBlock(P) ==
    IF Len(P.free) > 0
    THEN [P |-> [P EXCEPT !.free = SubSeq(P.free, 1, Len(P.free) - 1)],
          blk |-> [start |-> P.free[Len(P.free)], n |-> 0]]
    ELSE [P |-> [P EXCEPT !.end = P.end + P.blockSize], blk |-> [start |-> P.end, n |-> 0]]

\* The buffer of al with the block of al, holding n bytes, inserted as block i.
addBlock(al, i, n) == [al.P EXCEPT !.blocks = insertElem(@, i, [al.blk EXCEPT !.n = n])]

\* freeBlock
freeBlock(P, blk) == [P EXCEPT !.free = Append(P.free, blk.start)]

\* blockAt, the loop: the offset in the buffer of block i.
RECURSIVE blockStart(_, _)
blockStart(blocks, i) == IF i <= 1 THEN 0 ELSE blockStart(blocks, i - 1) + blocks[i - 1].n

\* blockAt, the loop: the blocks that hold at.
holding(P, at) ==
    {i \in 1..Len(P.blocks) :
        blockStart(P.blocks, i) <= at /\ at < blockStart(P.blocks, i) + P.blocks[i].n}

\* blockAt, the loop: the first block of S.
firstOf(S) == CHOOSE i \in S : \A j \in S : i <= j

\* blockAt, its results: the buffer, the index i of the block and the offset
\* q0 of the block in the buffer.
atBlock(P, i) == [P |-> P, i |-> i, q0 |-> blockStart(P.blocks, i)]

\* blockAt: the block that holds at.  If at is the size of the buffer, a new
\* block is appended.
blockAt(P, at) ==
    IF at < 0 \/ at > P.size THEN [P |-> [P EXCEPT !.err = "address"], i |-> 0, q0 |-> 0]
    ELSE IF at = P.size
    THEN [P |-> addBlock(allocBlock(P), Len(P.blocks) + 1, 0), i |-> Len(P.blocks) + 1, q0 |-> at]
    ELSE IF holding(P, at) = {} THEN [P |-> [P EXCEPT !.err = "impossible"], i |-> 0, q0 |-> 0]
    ELSE atBlock(P, firstOf(holding(P, at)))

\* insertAt without the cached index following the cached block.
cachedKept(c, i) == c

\* insertAt, a block inserted before block i: if b.cached == i, b.cached = i + 1.
cachedMoved(c, i) == IF c = i THEN i + 1 ELSE c

\* A split that leaves the cache as it is, the first half of the block first.
splitCacheUnmoved(Q, i, o) ==
    [P |-> [Q EXCEPT !.cached = i + 2, !.dirty = TRUE], i |-> i + 1]

\* insertAt, the end of the split of block i at its offset o: the cache
\* becomes the second half of the block, which is block i + 2.
splitCache(Q, i, o) ==
    [P |-> [Q EXCEPT !.cache = [k \in 1..Len(Q.cache) |->
                                  IF k + o <= Len(Q.cache) THEN Q.cache[k + o] ELSE Q.cache[k]],
                     !.cached = i + 2, !.dirty = TRUE],
     i |-> i + 1]

\* insertAt, the split of block i, which holds n bytes and is both in the
\* file and in the cache of Q, at its offset o.
split(Q, i, o, n) ==
    IF Q.err # "" THEN [P |-> Q, i |-> 0]
    ELSE splitCache(addBlock(allocBlock(addBlock(allocBlock([Q EXCEPT !.blocks[i].n = o]),
                                                 i + 1, 0)),
                             i + 2, n - o),
                    i, o)

\* insertAt, after blockAt.
insertAtBlock(b, at) ==
    IF b.P.err # "" THEN [P |-> b.P, i |-> 0]
    ELSE IF at = b.q0
    THEN [P |-> [addBlock(allocBlock(b.P), b.i, 0) EXCEPT !.cached = cachedMoved(@, b.i)],
          i |-> b.i]
    ELSE split(IF b.P.cached = b.i /\ b.P.dirty THEN put(b.P) ELSE get(b.P, b.i),
               b.i, at - b.q0, b.P.blocks[b.i].n)

\* insertAt: insert an empty block at at, splitting the block that holds at
\* if at is inside it.  Yields the buffer and the index of the new block.
insertAt(P, at) == insertAtBlock(blockAt(P, at), at)

\* insert, the end of a round of the loop on block i at offset o of it, with
\* room for m bytes: move the bytes after o up by m, copy the first m bytes
\* of the data to o.
insertRound(P, i, o, m, data) ==
    [P EXCEPT !.cache = [k \in 1..Len(P.cache) |->
                           IF k > o /\ k <= o + m THEN data[k - o]
                           ELSE IF k > o + m /\ k <= P.blocks[i].n + m THEN P.cache[k - m]
                           ELSE P.cache[k]],
              !.dirty = TRUE,
              !.blocks[i].n = @ + m,
              !.size = @ + m]

RECURSIVE insertLoop(_, _, _)

\* insert, the loop, from the copy on.
insertCopy(P, i, o, m, data, at) ==
    insertLoop(insertRound(P, i, o, m, data), SubSeq(data, m + 1, Len(data)), at + m)

\* insert, the loop, the block being full: after the get of the new block.
insertFresh(P, i, data, at) ==
    IF P.err # "" THEN P ELSE insertCopy(P, i, 0, Min(P.blockSize, Len(data)), data, at)

\* insert, the loop, the block being full: after insertAt.
insertNew(ia, data, at) ==
    IF ia.P.err # "" THEN ia.P ELSE insertFresh(get(ia.P, ia.i), ia.i, data, at)

\* insert, the loop, after the get of the block.
insertCached(P, i, q0, data, at) ==
    IF P.err # "" THEN P
    ELSE IF P.blockSize - P.blocks[i].n = 0 THEN insertNew(insertAt(P, at), data, at)
    ELSE insertCopy(P, i, at - q0, Min(P.blockSize - P.blocks[i].n, Len(data)), data, at)

\* insert, the loop, after blockAt.
insertBlock(b, data, at) ==
    IF b.P.err # "" THEN b.P ELSE insertCached(get(b.P, b.i), b.i, b.q0, data, at)

\* insert, the loop.
insertLoop(P, data, at) ==
    IF data = <<>> \/ P.err # "" THEN P ELSE insertBlock(blockAt(P, at), data, at)

\* insert: add the bytes at at.
insert(P, data, at) ==
    IF at < 0 \/ at > P.size THEN [P EXCEPT !.ret = AddressError(Point(at))]
    ELSE insertLoop([P EXCEPT !.ret = NoErr], data, at)

\* delete, the end of a round of the loop on block i at offset o of it, m
\* being the number of bytes that the round deletes.
deleteRound(P, i, o, n, m) ==
    IF o = 0 /\ n >= P.blocks[i].n
    THEN [freeBlock(P, P.blocks[i]) EXCEPT !.blocks = removeElem(@, i), !.cached = 0,
                                           !.size = @ - m]
    ELSE [P EXCEPT !.cache = [k \in 1..Len(P.cache) |->
                                IF k > o /\ k + m <= Len(P.cache) THEN P.cache[k + m]
                                ELSE P.cache[k]],
                   !.dirty = TRUE,
                   !.blocks[i].n = @ - m,
                   !.size = @ - m]

RECURSIVE deleteLoop(_, _, _)

\* delete, the loop, from the count m on.
deleteCount(P, i, o, n, m, at) == deleteLoop(deleteRound(P, i, o, n, m), n - m, at)

\* delete, the loop, after the get of the block.
deleteCached(P, i, o, n, at) ==
    IF P.err # "" THEN P ELSE deleteCount(P, i, o, n, Min(P.blocks[i].n - o, n), at)

\* delete, the loop, after blockAt.
deleteBlock(b, n, at) ==
    IF b.P.err # "" THEN b.P ELSE deleteCached(get(b.P, b.i), b.i, at - b.q0, n, at)

\* delete, the loop.
deleteLoop(P, n, at) ==
    IF n <= 0 \/ P.err # "" THEN P ELSE deleteBlock(blockAt(P, at), n, at)

\* delete: remove n bytes at at.
delete(P, n, at) ==
    IF n < 0 THEN [P EXCEPT !.ret = CountError(n)]
    ELSE IF at < 0 \/ at + n > P.size THEN [P EXCEPT !.ret = AddressError(Point(at))]
    ELSE deleteLoop([P EXCEPT !.ret = NoErr], n, at)

\* Write, after the delete.
writeDeleted(D, data, from) == IF D.ret # NoErr THEN D ELSE insert(D, data, from)

\* The mutant of Write: the address is not checked.
WriteUnchecked(P, data, from, to) == writeDeleted(delete(P, to - from, from), data, from)

\* Write: replace the bytes of [from, to) by the data.
Write(P, data, from, to) ==
    IF from < 0 \/ from > to \/ to > P.size
    THEN [P EXCEPT !.ret = AddressError(Addr(from, to))]
    ELSE writeDeleted(delete(P, to - from, from), data, from)

RECURSIVE readLoop(_, _, _, _)

\* ReadAt, the loop, from the copy of m bytes on.
readCopy(P, o, m, len, at, out) ==
    IF m <= 0 THEN [P |-> [P EXCEPT !.err = "no progress"], out |-> out, err |-> NoErr]
    ELSE readLoop(P, len - m, at + m, out \o SubSeq(P.cache, o + 1, o + m))

\* ReadAt, the loop, after the get of the block.
readCached(P, i, o, len, at, out) ==
    IF P.err # "" THEN [P |-> P, out |-> out, err |-> NoErr]
    ELSE readCopy(P, o, Min(len, P.blocks[i].n - o), len, at, out)

\* ReadAt, the loop, after blockAt.
readBlock(b, len, at, out) ==
    IF b.P.err # "" THEN [P |-> b.P, out |-> out, err |-> NoErr]
    ELSE readCached(get(b.P, b.i), b.i, at - b.q0, len, at, out)

\* ReadAt, the loop.  Yields the buffer, the bytes read, whose number is the
\* count that ReadAt returns, and the error that it returns.
readLoop(P, len, at, out) ==
    IF len <= 0 \/ P.err # "" THEN [P |-> P, out |-> out, err |-> NoErr]
    ELSE IF at = P.size THEN [P |-> P, out |-> out, err |-> EOF]
    ELSE readBlock(blockAt(P, at), len, at, out)

\* ReadAt: read len bytes at at.
ReadAt(P, len, at) ==
    IF at < 0 THEN [P |-> P, out |-> <<>>, err |-> AddressError(Point(at))]
    ELSE IF at = P.size /\ len = 0 THEN [P |-> P, out |-> <<>>, err |-> NoErr]
    ELSE IF at >= P.size THEN [P |-> P, out |-> <<>>, err |-> EOF]
    ELSE readLoop(P, len, at, <<>>)

\* Read, after ReadAt.
readReturned(r) ==
    [P |-> [r.P EXCEPT !.ret = r.err], out |-> IF r.err # NoErr THEN <<>> ELSE r.out]

\* Read: the bytes of the range [from, to).
Read(P, from, to) ==
    IF from < 0 \/ from > to \/ to > P.size
    THEN [P |-> [P EXCEPT !.ret = AddressError(Addr(from, to))], out |-> <<>>]
    ELSE readReturned(ReadAt(P, to - from, from))

\* ------------------------------------------------------------------ SpecPager

MaxOps == 3
MaxBytes == 4

\* The block sizes and the numbers of bytes that one operation inserts.
BlockSizes == {1, 2, 3}
DataLens == {1, 2, 3}

\* The bytes that operation number op inserts: no byte is inserted twice.
dataOf(op, len) == [k \in 1..len |-> 10 * op + k]

\* What pg.call says after an insert, delete or Write that the buffer could
\* carry out.
NoCall == [op |-> "none"]

\* What pg.was says: the end of the file and the length of the free list of
\* the buffer P, which is the buffer as an operation found it.
allocated(P) == [end |-> P.end, free |-> Len(P.free)]

\* An empty buffer of some block size; ref is the plain sequence of bytes
\* that the same operations give, ops the number of operations that the
\* buffer carried out so far, call
\* the last call when it was a ReadAt or a call with an address or a count
\* outside the buffer, was the end of the file and the length of the free
\* list before the last operation.
InitPager ==
    /\ \E bs \in BlockSizes :
          pg = [P |-> NewBytes(bs), ref |-> <<>>, ops |-> 0, call |-> NoCall,
                was |-> allocated(NewBytes(bs))]
    /\ InitOther
    /\ upd = None /\ ev = None

PagerReady == pg.ops < MaxOps /\ pg.P.err = ""

\* Bytes.insert of len bytes at at.
DoInsert(len, at) ==
    /\ PagerReady
    /\ at \in 0..pg.P.size
    /\ pg.P.size + len <= MaxBytes
    /\ pg' = [P |-> insert(pg.P, dataOf(pg.ops + 1, len), at),
              ref |-> Splice(pg.ref, at, at, dataOf(pg.ops + 1, len)),
              ops |-> pg.ops + 1, call |-> NoCall, was |-> allocated(pg.P)]
    /\ UNCHANGED <<upd, ev>> /\ UNCHANGED edVars

\* Bytes.delete of n bytes at at.
DoDelete(n, at) ==
    /\ PagerReady
    /\ n >= 1 /\ at >= 0 /\ at + n <= pg.P.size
    /\ pg' = [P |-> delete(pg.P, n, at),
              ref |-> Splice(pg.ref, at, at + n, <<>>),
              ops |-> pg.ops + 1, call |-> NoCall, was |-> allocated(pg.P)]
    /\ UNCHANGED <<upd, ev>> /\ UNCHANGED edVars

\* Bytes.Write of len bytes to the range [from, to).
DoWrite(len, from, to) ==
    /\ PagerReady
    /\ 0 <= from /\ from < to /\ to <= pg.P.size
    /\ pg.P.size - (to - from) + len <= MaxBytes
    /\ pg' = [P |-> Write(pg.P, dataOf(pg.ops + 1, len), from, to),
              ref |-> Splice(pg.ref, from, to, dataOf(pg.ops + 1, len)),
              ops |-> pg.ops + 1, call |-> NoCall, was |-> allocated(pg.P)]
    /\ UNCHANGED <<upd, ev>> /\ UNCHANGED edVars

\* What pg.call says after a ReadAt into a destination of len bytes at at:
\* the call, the count and the error that it returned.
readAtCall(r, len, at) ==
    [op |-> "ReadAt", len |-> len, at |-> at, n |-> Len(r.out), err |-> r.err]

\* Bytes.ReadAt of the whole buffer.
DoReadAt ==
    /\ PagerReady
    /\ pg.P.size > 0
    /\ pg' = [pg EXCEPT !.P = ReadAt(pg.P, pg.P.size, 0).P, !.ops = @ + 1,
                         !.was = allocated(pg.P),
                         !.call = readAtCall(ReadAt(pg.P, pg.P.size, 0), pg.P.size, 0)]
    /\ UNCHANGED <<upd, ev>> /\ UNCHANGED edVars

NextPager ==
    \/ \E len \in DataLens, at \in 0..MaxBytes : DoInsert(len, at)
    \/ \E n \in 1..MaxBytes, at \in 0..MaxBytes : DoDelete(n, at)
    \/ \E len \in DataLens, from \in 0..MaxBytes, to \in 0..MaxBytes : DoWrite(len, from, to)
    \/ DoReadAt

SpecPager == InitPager /\ [][NextPager]_vars

\* The read r ended without an error and returned the bytes want.
readsAs(r, want) == r.P.err = "" /\ r.out = want

\* C5: after any sequence of valid insert, delete and Write operations on a
\* Bytes pager, for any block size >= 1, Size() and the bytes read back over
\* [0, Size()) equal those obtained by applying the same operations to a
\* plain in-memory byte sequence.
C5_PagerIsSequence ==
    /\ pg.P.err = ""
    /\ pg.P.size = Len(pg.ref)
    /\ readsAs(ReadAt(pg.P, pg.P.size, 0), pg.ref)

\* The buffer spans several blocks of two or more bytes, at least three
\* blocks have been allocated in the file, one of them is free again, and the
\* cached block is dirty.
C5_Witness ==
    /\ pg.P.blockSize >= 2
    /\ Len(pg.P.blocks) >= 2
    /\ pg.P.free # <<>>
    /\ pg.P.end >= 3 * pg.P.blockSize
    /\ pg.P.dirty /\ pg.P.cached # 0
    /\ pg.P.size >= 3

\* C11: when do retries after a seq mismatch, the editor's marks, dot
\* included, are reset to their values from before the edit began, so that
\* every phase one evaluates its addresses against the same marks: in
\* SpecRetry, where no other editor changes them, the marks that a phase one
\* after a retry is about to read are the marks of before the call.
C11_RetryResetsMarks ==
    \A e \in DOMAIN pc :
        (pc[e] = "pend" /\ loc[e].retried /\ ~loc[e].foreign) => marks[e] = loc[e].pre.marks

\* The next step of editor e in do reads or writes ed.marks with no lock
\* held: the copy at the label retry, the assignment of dot after the commit,
\* the deferred assignment of ed.marks.
unlockedAccess(e) == pc[e] \in {"snap", "setdot", "ret"}

\* The next step of editor f is a commit that updates marks in Buffer.change.
commitsNext(f) ==
    /\ pc[f] = "apply"
    /\ ~seqChanged(f)
    /\ pending[f] # <<>>
    /\ change(text, marks, eds, pending[f][1]).err = ""

\* C12: no editor reads or writes its own marks while the phase-two commit of
\* another editor is updating them, every access of do to the marks being
\* made with the buffer's lock held: no registered editor is about to access
\* its marks without a lock while another editor is about to commit.
C12_MarksUnderLock ==
    \A e \in Registered : \A f \in DOMAIN pc \ {e} :
        ~(marks[e].has # {} /\ unlockedAccess(e) /\ commitsNext(f))

\* ------------------------------------------------------------------ SpecSeq

\* Editor.Where of address A, with the RLock held for the whole evaluation:
\* the text and seq are only read; a compound address with ; stores its left
\* operand in the editor's dot.
Where(e, A) ==
    /\ ~Crashed
    /\ pc[e] = "idle"
    /\ IF where(A, marks[e], text).err = "panic"
       THEN Crash /\ UNCHANGED marks
       ELSE /\ marks' = [marks EXCEPT ![e] = where(A, marks[e], text).mk]
            /\ UNCHANGED <<pc, loc, pending>>
    /\ UNCHANGED <<text, seq, eds, who, hist>>
    /\ UNCHANGED otherVars

\* The edits and the addresses of SpecSeq: an edit that commits, an edit
\* whose phase one fails, an address that evaluates and one that fails.
SeqEdits ==
    { Change(Rune(1), <<"a">>),
      Change(To(Then(Rune(1), End), Rune(FarRune)), <<"a">>) }
SeqAddrs == {Then(Rune(1), End), Rune(FarRune)}

\* The values of seq that the buffer of SpecSeq starts with: that of a new
\* buffer, and that of a buffer one commit short of the largest int32.
SeqStarts == {0, MaxInt32 - 1}

\* Two editors on a buffer that has seen some number of commits.
InitSeq ==
    /\ text \in InitTexts
    /\ seq \in SeqStarts
    /\ eds = <<1, 2>>
    /\ who = 2
    /\ marks = [e \in EdIds |-> Put(NoMarks, ".", Pt(0))]
    /\ pending = [e \in EdIds |-> <<>>]
    /\ pc = [e \in EdIds |-> "idle"]
    /\ loc = [e \in EdIds |-> LocIdle]
    /\ hist = [n |-> 0, serial |-> text]
    /\ upd = None /\ ev = None /\ pg = None

NextSeq ==
    \E e \in EdIds :
        \/ \E E \in SeqEdits : Begin(e, E)
        \/ \E A \in SeqAddrs : Where(e, A)
        \/ Snapshot(e)
        \/ PendChanges(e)
        \/ ApplyChanges(e)
        \/ SetDot(e)
        \/ Return(e)

SpecSeq == InitSeq /\ [][NextSeq]_vars

\* C13: the buffer's seq never decreases and changes only by being
\* incremented by exactly one in phase two of a committed edit; attempts
\* that retry or fail, and Where, leave it unchanged.
C13_SeqMonotonic ==
    [][/\ seq' >= seq
       /\ seq' # seq => (seq' = seq + 1 /\ \E e \in DOMAIN pc : Commits(e))]_vars

\* The same as long as seq is not the largest int32.
SeqMonotonicBelowMax ==
    [][seq < MaxInt32 =>
          /\ seq' >= seq
          /\ seq' # seq => (seq' = seq + 1 /\ \E e \in DOMAIN pc : Commits(e))]_vars

\* ------------------------------------------------------------------ regular expressions

\* The rune that stands for "no rune": before the start and past the end.
eof == "eof"

\* An edge of the automaton: a label and the node it leads to.  The label ""
\* is the nil label, the node 0 is the nil node.  A rune label is the rune.
Edge(label, to) == [label |-> label, to |-> to]
NoEdge == Edge("", 0)

\* A node: its two out edges and its subexpression tag.
Node(e0, e1, sub) == [out |-> <<e0, e1>>, sub |-> sub]

\* label.epsilon of edge.epsilon: nil, bolLabel and eolLabel consume nothing.
epsilon(e) == e.label \in {"", "bol", "eol"}

\* label.ok of dotLabel, bolLabel, eolLabel and runeLabel.
labelOk(l, p, c) ==
    CASE l = "dot" -> c # NL /\ c # eof
      [] l = "bol" -> p = eof \/ p = NL
      [] l = "eol" -> c = eof \/ c = NL
      [] OTHER -> c = l

\* edge.ok
ok(e, p, c) == e.label # "" /\ labelOk(e.label, p, c)

\* The parse of an expression, by the production that made each part:
\* e3 for a literal, '.', '^' or '$', paren for '(' e0 ')', e2p for a
\* repetition, e1 for a concatenation, e0 for an alternation.
reRune(r) == [k |-> "e3", t |-> r]
reDot == [k |-> "e3", t |-> "dot"]
reCarrot == [k |-> "e3", t |-> "carrot"]
reDollar == [k |-> "e3", t |-> "dollar"]
reParen(e) == [k |-> "paren", l |-> e]
reStar(e) == [k |-> "e2p", t |-> "star", l |-> e]
rePlus(e) == [k |-> "e2p", t |-> "plus", l |-> e]
reQuestion(e) == [k |-> "e2p", t |-> "question", l |-> e]
reCat(l, r) == [k |-> "e1", l |-> l, r |-> r]
reOr(l, r) == [k |-> "e0", l |-> l, r |-> r]
reEmpty == [k |-> "nil"]

\* The number of '(' in an expression: how far it advances parser.nsub.
RECURSIVE parens(_)
parens(e) ==
    CASE e.k = "paren" -> 1 + parens(e.l)
      [] e.k = "e2p" -> parens(e.l)
      [] e.k \in {"e1", "e0"} -> parens(e.l) + parens(e.r)
      [] OTHER -> 0

\* A Regexp under construction: its nodes, and which are start and end.
Frag(nodes, start, end) == [nodes |-> nodes, start |-> start, end |-> end]

setTo(N, n, j, to) == [N EXCEPT ![n].out[j].to = to]

shiftEdge(e, k) == IF e.to = 0 THEN e ELSE Edge(e.label, e.to + k)
shift(N, k) ==
    [i \in 1..Len(N) |->
        Node(shiftEdge(N[i].out[1], k), shiftEdge(N[i].out[2], k), N[i].sub)]

\* The label e3 gives a token; '^' and '$' swap when compiling in reverse.
e3Label(t, rev) ==
    CASE t = "carrot" -> IF rev THEN "eol" ELSE "bol"
      [] t = "dollar" -> IF rev THEN "bol" ELSE "eol"
      [] OTHER -> t

\* e3 for a literal, '.', '^' or '$': start --label--> end.
e3(t, rev) == Frag(<<Node(Edge(e3Label(t, rev), 2), NoEdge, 0), Node(NoEdge, NoEdge, 0)>>, 1, 2)

\* subexpr: a new start tagged n+1 leading to e, and e leading to a new end
\* tagged -n-1.
subexpr(e, n) ==
    Frag(setTo(e.nodes, e.end, 1, Len(e.nodes) + 2)
            \o <<Node(Edge("", e.start), NoEdge, n + 1), Node(NoEdge, NoEdge, 0 - n - 1)>>,
         Len(e.nodes) + 1, Len(e.nodes) + 2)

\* e2p: the new start and end nodes come after the nodes of l.
e2pStar(l) ==
    Frag(setTo(setTo(l.nodes, l.end, 1, l.start), l.end, 2, Len(l.nodes) + 2)
            \o <<Node(Edge("", l.start), Edge("", l.end), 0), Node(NoEdge, NoEdge, 0)>>,
         Len(l.nodes) + 1, Len(l.nodes) + 2)
e2pPlus(l) ==
    Frag(setTo(setTo(l.nodes, l.end, 1, l.start), l.end, 2, Len(l.nodes) + 2)
            \o <<Node(Edge("", l.start), NoEdge, 0), Node(NoEdge, NoEdge, 0)>>,
         Len(l.nodes) + 1, Len(l.nodes) + 2)
e2pQuestion(l) ==
    Frag(l.nodes \o <<Node(Edge("", l.start), Edge("", l.end), 0)>>,
         Len(l.nodes) + 1, l.end)
e2p(l, t) ==
    CASE t = "star" -> e2pStar(l)
      [] t = "plus" -> e2pPlus(l)
      [] t = "question" -> e2pQuestion(l)

\* r, renumbered to stand after the nodes of l.
after(l, r) ==
    Frag(shift(r.nodes, Len(l.nodes)), r.start + Len(l.nodes), r.end + Len(l.nodes))

\* e1 once l and r are swapped for a reverse match: l.end leads to r.start.
e1Wire(N, l, r) == Frag(setTo(N, l.end, 1, r.start), l.start, r.end)
e1Joined(l, r, rev) ==
    IF rev THEN e1Wire(l.nodes \o r.nodes, r, l) ELSE e1Wire(l.nodes \o r.nodes, l, r)
e1(l, r, rev) == e1Joined(l, after(l, r), rev)

\* e0: a new start leading to both sides, both sides leading to a new end.
e0Wire(N, l, r) ==
    Frag(setTo(setTo(N, l.end, 1, Len(N) + 2), r.end, 1, Len(N) + 2)
            \o <<Node(Edge("", l.start), Edge("", r.start), 0), Node(NoEdge, NoEdge, 0)>>,
         Len(N) + 1, Len(N) + 2)
e0Joined(l, r) == e0Wire(l.nodes \o r.nodes, l, r)
e0(l, r) == e0Joined(l, after(l, r))

\* The parser's result for an expression, with parser.nsub = nsub on entry.
RECURSIVE parse(_, _, _)
parse(e, rev, nsub) ==
    CASE e.k = "e3" -> e3(e.t, rev)
      [] e.k = "paren" -> subexpr(parse(e.l, rev, nsub), nsub + parens(e.l))
      [] e.k = "e2p" -> e2p(parse(e.l, rev, nsub), e.t)
      [] e.k = "e1" -> e1(parse(e.l, rev, nsub), parse(e.r, rev, nsub + parens(e.l)), rev)
      [] e.k = "e0" -> e0(parse(e.l, rev, nsub), parse(e.r, rev, nsub + parens(e.l)))
      [] e.k = "nil" -> Frag(<<Node(Edge("", 2), NoEdge, 0), Node(NoEdge, NoEdge, 0)>>, 1, 2)

\* Compile: the parse wrapped as subexpression 0; nsub is 1 plus the number
\* of '('.
compiled(f, nsub) == [nodes |-> f.nodes, start |-> f.start, end |-> f.end, nsub |-> nsub]
Compile(e, rev) == compiled(subexpr(parse(e, rev, 1), 0), 1 + parens(e))

\* A state of the simulation: a node and the submatch vector of the path
\* that reached it.
State(n, es) == [n |-> n, es |-> es]
noEs(nsub) == [k \in 1..nsub |-> <<0, 0>>]

\* The label of the first consuming state, or "" for none.
l0Of(s0) == IF s0.out[2].to = 0 /\ ~epsilon(s0.out[1]) THEN s0.out[1].label ELSE ""

\* newMach: at, the result es (<<>> is nil), and the open and closed arrays,
\* which keep their contents from one run of match to the next.
newMach(re) ==
    [at |-> 0, es |-> <<>>,
     l0 |-> l0Of(re.nodes[re.nodes[re.start].out[1].to]),
     open |-> [i \in 1..Len(re.nodes) |-> State(0, noEs(re.nsub))],
     closed |-> [i \in 1..Len(re.nodes) |-> State(0, noEs(re.nsub))]]

\* mach.runes: the rune before at and the rune at at, eof outside the text.
prevRune(rs, at) == IF at > 0 /\ at - 1 < Len(rs) THEN rs[at] ELSE eof
curRune(rs, at) == IF at >= 0 /\ at < Len(rs) THEN rs[at + 1] ELSE eof

\* The submatch vector after entering a node tagged sub at offset at.
tagged(es, sub, at) ==
    IF sub > 0 THEN [es EXCEPT ![sub][1] = at]
    ELSE IF sub < 0 THEN [es EXCEPT ![0 - sub][2] = at]
    ELSE es

\* The state on top of the open stack, its tag applied.
popped(X, re) ==
    State(X.m.open[X.nopen].n,
          tagged(X.m.open[X.nopen].es, re.nodes[X.m.open[X.nopen].n].sub, X.m.at))

\* The inner loop of eclose for one out edge of s.
pushEdge(X, s, e, p, c) ==
    IF e.to = 0 \/ ~epsilon(e) \/ e.to \in X.seen THEN X
    ELSE IF e.label = "" \/ ok(e, p, c)
    THEN [X EXCEPT !.seen = @ \cup {e.to}, !.nopen = @ + 1,
                   !.m.open[X.nopen + 1] = State(e.to, s.es)]
    ELSE [X EXCEPT !.seen = @ \cup {e.to}]

\* adv: s has a consuming out edge, so it goes on the closed list.
consuming(n) == \E j \in 1..2 : n.out[j].to # 0 /\ ~epsilon(n.out[j])
closeState(X, s, adv) ==
    IF adv
    THEN [X EXCEPT !.nclosed = @ + 1, !.m.closed[X.nclosed + 1] = s]
    ELSE X

\* The mutant of recorded: only the first accepting state is recorded.
recordedFirst(X, s) ==
    IF X.m.es = <<>> THEN [X EXCEPT !.nopen = @ - 1, !.m.es = s.es]
    ELSE [X EXCEPT !.nopen = @ - 1]

\* A match: the accepting state's submatch vector is copied to m.es.
recorded(X, s) == [X EXCEPT !.nopen = @ - 1, !.m.es = s.es]

\* One round of the loop of eclose, for the popped state s.
ecloseRound(X, re, s, p, c) ==
    IF s.n = re.end /\ s.es[1][1] <= s.es[1][2]
    THEN recorded(X, s)
    ELSE closeState(
            pushEdge(pushEdge([X EXCEPT !.nopen = @ - 1], s, re.nodes[s.n].out[1], p, c),
                     s, re.nodes[s.n].out[2], p, c),
            s, consuming(re.nodes[s.n]))

RECURSIVE ecloseLoop(_, _, _, _)
ecloseLoop(X, re, p, c) ==
    IF X.nopen = 0 THEN X
    ELSE ecloseLoop(ecloseRound(X, re, popped(X, re), p, c), re, p, c)

\* mach.eclose (the code's name starts with the letter epsilon)
eclose(m, re, p, c, nopen) ==
    ecloseLoop([m |-> m, nopen |-> nopen, nclosed |-> 0,
                seen |-> {m.open[i].n : i \in 1..nopen}], re, p, c)

\* The inner loop of advance for one out edge of the closed state s.
stepEdge(Y, s, e, p, c) ==
    IF e.to # 0 /\ e.to \notin Y.seen /\ ~epsilon(e) /\ ok(e, p, c)
    THEN [Y EXCEPT !.seen = @ \cup {e.to}, !.nopen = @ + 1,
                   !.m.open[Y.nopen + 1] = State(e.to, s.es)]
    ELSE Y

RECURSIVE advanceLoop(_, _, _, _, _, _)
advanceLoop(Y, re, p, c, i, nclosed) ==
    IF i > nclosed THEN Y
    ELSE advanceLoop(
            stepEdge(stepEdge(Y, Y.m.closed[i], re.nodes[Y.m.closed[i].n].out[1], p, c),
                     Y.m.closed[i], re.nodes[Y.m.closed[i].n].out[2], p, c),
            re, p, c, i + 1, nclosed)

\* mach.advance
advance(m, re, p, c, nclosed) ==
    advanceLoop([m |-> m, nopen |-> 0, seen |-> {}], re, p, c, 1, nclosed)

\* The loop of mach.match: close, stop when nothing can advance, advance.
RECURSIVE matchLoop(_, _, _, _)
matchAdvanced(Y, re, rs) == matchLoop([Y.m EXCEPT !.at = @ + 1], re, rs, Y.nopen)
matchClosed(X, re, rs) ==
    IF X.nclosed = 0 THEN X.m
    ELSE matchAdvanced(
            advance(X.m, re, prevRune(rs, X.m.at), curRune(rs, X.m.at), X.nclosed), re, rs)
matchLoop(m, re, rs, nopen) ==
    matchClosed(eclose(m, re, prevRune(rs, m.at), curRune(rs, m.at), nopen), re, rs)

\* mach.match: the machine afterwards, what match returns (<<>> is nil), and
\* whether the first label rejected the position without a simulation.
ran(m) == [m |-> m, es |-> m.es, rejected |-> FALSE]
match(m, re, rs) ==
    IF m.l0 # "" /\ ~labelOk(m.l0, prevRune(rs, m.at), curRune(rs, m.at))
    THEN [m |-> m, es |-> <<>>, rejected |-> TRUE]
    ELSE ran(matchLoop([m EXCEPT !.open[1].n = re.start], re, rs, 1))

\* The mutant of searchOrder: the search starts at 0 whatever from is.
searchFromZero(from, n) == [i \in 1..(n + 1) |-> i - 1]

\* The start positions of Regexp.Match in the order of its two loops:
\* from, ..., size, then 0, ..., from-1.
searchOrder(from, n) ==
    [i \in 1..(n - from + 1) |-> from + i - 1] \o [i \in 1..from |-> i - 1]

\* Regexp.Match: the submatch vector (<<>> is nil), the start positions at
\* which mach.match ran, in order, and those the first label rejected.
RECURSIVE search(_, _, _, _, _, _)
searched(r, re, rs, order, k, rej) ==
    IF r.es # <<>>
    THEN [es |-> r.es, tried |-> SubSeq(order, 1, k), rejected |-> rej]
    ELSE search(r.m, re, rs, order, k + 1, IF r.rejected THEN rej \cup {order[k]} ELSE rej)
search(m, re, rs, order, k, rej) ==
    IF k > Len(order) THEN [es |-> <<>>, tried |-> order, rejected |-> rej]
    ELSE searched(match([m EXCEPT !.at = order[k]], re, rs), re, rs, order, k, rej)
Match(re, rs, from) == search(newMach(re), re, rs, searchOrder(from, Len(rs)), 1, {})

\* reverse.Rune: the text as the reverse view shows it.
reversed(rs) == [i \in 1..Len(rs) |-> rs[Len(rs) - i + 1]]

\* The mutant of reRange: the offsets of a reverse match are not translated
\* back.
reRangeForward(es, rev, n) ==
    IF es = <<>> THEN [a |-> Pt(0), err |-> "no match"]
    ELSE [a |-> Addr(es[1][1], es[1][2]), err |-> ""]

\* reAddr.whereFrom: the range of the next match, searching backwards when
\* rev, or the error "no match".
reRange(es, rev, n) ==
    IF es = <<>> THEN [a |-> Pt(0), err |-> "no match"]
    ELSE IF rev THEN [a |-> Addr(n - es[1][2], n - es[1][1]), err |-> ""]
    ELSE [a |-> Addr(es[1][1], es[1][2]), err |-> ""]
reWhereFrom(e, rev, from, txt) ==
    IF rev
    THEN reRange(Match(Compile(e, TRUE), reversed(txt), Len(txt) - from).es, TRUE, Len(txt))
    ELSE reRange(Match(Compile(e, FALSE), txt, from).es, FALSE, Len(txt))

\* ------------------------------------------------------------------ SpecRe

\* The expressions the specification draws from, as the parser reads them:
\* the empty expression, a  .  \n  ^  $  a*  a+  a?  .*  aa  a|aa  a?a  a*\n
\* ^a  a$  ^$  ^a*$  (a*)*  (a|\n)+  a(\na)?  (^a|a$)  \n^a  a?$  (a)(.?)
RePatterns ==
    {reEmpty, reRune("a"), reDot, reRune(NL), reCarrot, reDollar,
     reStar(reRune("a")), rePlus(reRune("a")), reQuestion(reRune("a")), reStar(reDot),
     reCat(reRune("a"), reRune("a")),
     reOr(reRune("a"), reCat(reRune("a"), reRune("a"))),
     reCat(reQuestion(reRune("a")), reRune("a")),
     reCat(reStar(reRune("a")), reRune(NL)),
     reCat(reCarrot, reRune("a")),
     reCat(reRune("a"), reDollar),
     reCat(reCarrot, reDollar),
     reCat(reCarrot, reCat(reStar(reRune("a")), reDollar)),
     reStar(reParen(reStar(reRune("a")))),
     rePlus(reParen(reOr(reRune("a"), reRune(NL)))),
     reCat(reRune("a"), reQuestion(reParen(reCat(reRune(NL), reRune("a"))))),
     reParen(reOr(reCat(reCarrot, reRune("a")), reCat(reRune("a"), reDollar))),
     reCat(reRune(NL), reCat(reCarrot, reRune("a"))),
     reCat(reQuestion(reRune("a")), reDollar),
     reCat(reParen(reRune("a")), reParen(reQuestion(reDot)))}

InitRe ==
    /\ \E txt \in Texts(MaxTextLen) :
       \E e \in RePatterns, rev \in BOOLEAN, from \in 0..Len(txt) :
          ev = [e |-> e, rev |-> rev, text |-> txt, from |-> from, done |-> FALSE,
                m |-> [es |-> <<>>, tried |-> <<>>, rejected |-> {}],
                res |-> [a |-> Pt(0), err |-> ""]]
    /\ upd = None /\ pg = None
    /\ InitOther

\* One evaluation of a regular-expression address from an offset of the
\* buffer, as reAddr.whereFrom makes it: m is what its call of Match
\* returned over the view of the text that it searched.
reView(rev, txt) == IF rev THEN reversed(txt) ELSE txt
reFrom(rev, txt, from) == IF rev THEN Len(txt) - from ELSE from
DoRegexp ==
    /\ ~ev.done
    /\ ev' = [ev EXCEPT !.done = TRUE,
                        !.m = Match(Compile(ev.e, ev.rev), reView(ev.rev, ev.text),
                                    reFrom(ev.rev, ev.text, ev.from)),
                        !.res = reWhereFrom(ev.e, ev.rev, ev.from, ev.text)]
    /\ UNCHANGED <<upd, pg>> /\ UNCHANGED edVars

NextRe == DoRegexp

SpecRe == InitRe /\ [][NextRe]_vars

\* What regexp(7) says an expression matches: the end offsets t such that
\* e matches the runes of txt from s up to t.
RECURSIVE Ends(_, _, _)
RECURSIVE EndsClosure(_, _, _, _)
EndsClosure(e, txt, S, k) ==
    IF k = 0 THEN S
    ELSE EndsClosure(e, txt, S \cup UNION {Ends(e, txt, m) : m \in S}, k - 1)
Ends(e, txt, s) ==
    CASE e.k = "nil" -> {s}
      [] e.k = "e3" /\ e.t = "carrot" -> IF s = 0 \/ txt[s] = NL THEN {s} ELSE {}
      [] e.k = "e3" /\ e.t = "dollar" -> IF s = Len(txt) \/ txt[s + 1] = NL THEN {s} ELSE {}
      [] e.k = "e3" /\ e.t = "dot" -> IF s < Len(txt) /\ txt[s + 1] # NL THEN {s + 1} ELSE {}
      [] e.k = "e3" /\ e.t \notin {"carrot", "dollar", "dot"} ->
            IF s < Len(txt) /\ txt[s + 1] = e.t THEN {s + 1} ELSE {}
      [] e.k = "paren" -> Ends(e.l, txt, s)
      [] e.k = "e1" -> UNION {Ends(e.r, txt, m) : m \in Ends(e.l, txt, s)}
      [] e.k = "e0" -> Ends(e.l, txt, s) \cup Ends(e.r, txt, s)
      [] e.k = "e2p" /\ e.t = "question" -> {s} \cup Ends(e.l, txt, s)
      [] e.k = "e2p" /\ e.t = "star" -> EndsClosure(e.l, txt, {s}, Len(txt) + 1)
      [] e.k = "e2p" /\ e.t = "plus" -> EndsClosure(e.l, txt, Ends(e.l, txt, s), Len(txt) + 1)

\* The same in the offsets of the view that Match searched: in a reverse
\* search the view's offset s is the text's offset size - s, and a match in
\* the view from s to t is a match in the text from size - t to size - s.
ViewEnds(s) ==
    IF ev.rev
    THEN {Len(ev.text) - b : b \in {b \in 0..(Len(ev.text) - s) :
                                      (Len(ev.text) - s) \in Ends(ev.e, ev.text, b)}}
    ELSE Ends(ev.e, ev.text, s)

SetMax(S) == CHOOSE x \in S : \A y \in S : y <= x

\* The start positions in the order from, ..., size, 0, ..., from-1.
WrapOrder(from, n) == [i \in 1..(n + 1) |-> (from + i - 1) % (n + 1)]

\* The index in the order o of the first start position with a match, or
\* Len(o) when there is none.
FirstHit(o) ==
    IF \E i \in 1..Len(o) : ViewEnds(o[i]) # {}
    THEN CHOOSE i \in 1..Len(o) :
            ViewEnds(o[i]) # {} /\ \A j \in 1..(i - 1) : ViewEnds(o[j]) = {}
    ELSE Len(o)

\* C14: the whole-expression match that Match returns is leftmost-longest:
\* the expression matches from its start, no start position earlier in the
\* search order has a match, and its end is the largest end of a match from
\* that start.
C14_LeftmostLongest ==
    (ev.done /\ ev.m.es # <<>>) =>
        /\ ViewEnds(ev.m.es[1][1]) # {}
        /\ ev.m.es[1][2] = SetMax(ViewEnds(ev.m.es[1][1]))
        /\ LET o == WrapOrder(reFrom(ev.rev, ev.text, ev.from), Len(ev.text))
           IN  o[FirstHit(o)] = ev.m.es[1][1]

\* C14 witness: the match starts after the first position tried, and the
\* expression also has a shorter match from the same start.
C14_Witness ==
    /\ ev.done /\ ev.m.es # <<>>
    /\ Len(ev.m.tried) > 1
    /\ Cardinality(ViewEnds(ev.m.es[1][1])) > 1

\* C15: Match runs at the start positions from, ..., size, 0, ..., from-1 in
\* this order and stops at the first that has a match, which it returns; the
\* first label rejects only positions that have no match; Match returns nil
\* exactly when no start position in [0, size] has a match.
C15_SearchOrder ==
    ev.done =>
        LET o == WrapOrder(reFrom(ev.rev, ev.text, ev.from), Len(ev.text))
        IN  /\ ev.m.tried = SubSeq(o, 1, FirstHit(o))
            /\ \A q \in ev.m.rejected : ViewEnds(q) = {}
            /\ (ev.m.es = <<>>) <=> (\A q \in 0..Len(ev.text) : ViewEnds(q) = {})
            /\ (ev.m.es # <<>>) => ev.m.es[1][1] = o[FirstHit(o)]

\* C15 witness: the search wrapped around to a match before from, after the
\* first label rejected a position.
C15_Witness ==
    /\ ev.done /\ ev.m.es # <<>>
    /\ ev.m.es[1][1] < reFrom(ev.rev, ev.text, ev.from)
    /\ ev.m.rejected # {}

\* C16: a forward or reverse empty regular-expression address evaluated from
\* an offset from of the text yields the point (from, from).
C16_EmptyMatchesAtFrom ==
    (ev.done /\ ev.e = reEmpty) => ev.res = [a |-> Pt(ev.from), err |-> ""]

\* C16 witness: a reverse empty address evaluated from inside the text.
C16_Witness ==
    /\ ev.done /\ ev.e = reEmpty /\ ev.rev
    /\ 0 < ev.from /\ ev.from < Len(ev.text)

\* ------------------------------------------------------------------ C17

\* The address contains a ';'.
RECURSIVE HasThen(_)
HasThen(A) ==
    /\ A.k \in {"add", "compound"}
    /\ \/ A.k = "compound" /\ A.op = ";"
       \/ HasThen(A.a1)
       \/ HasThen(A.a2)

\* C17: when the evaluation of an address that contains ';' returns an
\* error, dot is what it was before the evaluation started.
C17_DotRestoredOnError ==
    (ev.done /\ HasThen(ev.A) /\ ev.res.err \notin {"", "panic"}) =>
        Get(ev.res.mk, ".") = Get(ev.mk, ".")

\* ------------------------------------------------------------------ SpecCalls

MaxCallOps == 2

\* The calls with an address or a count outside a buffer of n bytes, their
\* offsets being around the two ends of the buffer.
OutsideCalls(n) ==
    {[op |-> "insert", at |-> at] : at \in {0 - 1, n + 1}}
        \cup {c \in [op : {"delete"}, n : (0 - 1)..1, at : {0 - 1, 0, n, n + 1}] :
                c.n < 0 \/ c.at < 0 \/ c.at + c.n > n}
        \cup {c \in [op : {"Read", "Write"}, from : {0 - 1, 0, n, n + 1},
                       to : {0 - 1, 0, n, n + 1}] :
                c.from < 0 \/ c.from > c.to \/ c.to > n}
AllOutsideCalls == UNION {OutsideCalls(n) : n \in 0..MaxBytes}

\* The buffer after the call c, inserted or written bytes being data.
called(P, c, data) ==
    CASE c.op = "insert" -> insert(P, data, c.at)
      [] c.op = "delete" -> delete(P, c.n, c.at)
      [] c.op = "Write" -> Write(P, data, c.from, c.to)
      [] c.op = "Read" -> Read(P, c.from, c.to).P

\* Bytes.insert, delete, Write or Read with an address or a count outside
\* the buffer; pg.call keeps the call and the buffer as it was before.
DoOutside(c) ==
    /\ PagerReady
    /\ c \in OutsideCalls(pg.P.size)
    /\ pg' = [pg EXCEPT !.P = called(pg.P, c, dataOf(pg.ops + 1, 1)),
                        !.call = [op |-> c.op, args |-> c, before |-> pg.P],
                        !.was = allocated(pg.P)]
    /\ UNCHANGED <<upd, ev>> /\ UNCHANGED edVars

\* Bytes.ReadAt at the end of the buffer, into a destination of len bytes.
DoReadAtEnd(len) ==
    /\ PagerReady
    /\ pg' = [pg EXCEPT !.P = ReadAt(pg.P, len, pg.P.size).P,
                        !.was = allocated(pg.P),
                        !.call = readAtCall(ReadAt(pg.P, len, pg.P.size), len, pg.P.size)]
    /\ UNCHANGED <<upd, ev>> /\ UNCHANGED edVars

\* The operations of SpecPager, up to MaxCallOps of them, and between them
\* the reads at the end of the buffer and the calls outside it, one such
\* call at a time.
NextCalls ==
    \/ pg.ops < MaxCallOps /\ NextPager
    \/ pg.call.op = "none" /\ \E c \in AllOutsideCalls : DoOutside(c)
    \/ pg.call.op = "none" /\ \E len \in 0..1 : DoReadAtEnd(len)

SpecCalls == InitPager /\ [][NextCalls]_vars

\* ------------------------------------------------------------------ C18, C19, C20

\* The error that the claim names for a call outside a buffer of n bytes.
RefusedWith(c, n) ==
    CASE c.op \in {"Read", "Write"} -> AddressError(Addr(c.from, c.to))
      [] c.op = "insert" -> AddressError(Point(c.at))
      [] c.op = "delete" -> IF c.n < 0 THEN CountError(c.n) ELSE AddressError(Point(c.at))

\* The bytes of the buffer, in order.
Contents(P) == ReadAt(P, P.size, 0).out

\* C18: Read and Write with From < 0, From > To or To > Size() return an
\* AddressError carrying the address, insert and delete outside [0, size]
\* return an AddressError, delete with a negative count returns a
\* CountError, and the call leaves the contents, the size, the block list
\* and the free-list of the pager as they were.
C18_RefusedUnchanged ==
    pg.call.op \in {"insert", "delete", "Write", "Read"} =>
        /\ pg.P.err = ""
        /\ pg.P.ret = RefusedWith(pg.call.args, pg.call.before.size)
        /\ Contents(pg.P) = Contents(pg.call.before)
        /\ pg.P.size = pg.call.before.size
        /\ pg.P.blocks = pg.call.before.blocks
        /\ pg.P.free = pg.call.before.free

\* C18 witness: a Write whose From is past its To was refused by a buffer of
\* several blocks, one of them free, with a dirty cache.
C18_Witness ==
    /\ pg.call.op = "Write" /\ pg.call.args.from > pg.call.args.to /\ pg.call.args.to >= 0
    /\ pg.call.args.from <= pg.P.size
    /\ Len(pg.P.blocks) >= 2 /\ pg.P.free # <<>> /\ pg.P.dirty

\* C19: ReadAt with an empty destination at at = Size() returns io.EOF with
\* count 0.
C19_EmptyReadAtEnd ==
    (pg.call.op = "ReadAt" /\ pg.call.len = 0 /\ pg.call.at = pg.P.size) =>
        (pg.call.err = EOF /\ pg.call.n = 0)

\* C20: after every operation dirty implies that a block is cached, and the
\* cached index is none (-1 in the code, 0 here) or an index of the block
\* list.
C20_DirtyIsCached ==
    /\ pg.P.dirty => pg.P.cached # 0
    /\ pg.P.cached \in 0..Len(pg.P.blocks)


\* ------------------------------------------------------------------ C21

\* C21: block allocation reuses the start of a freed block whenever the
\* free list is not empty and extends the file, by blockSize, only when the
\* free list is empty; the end of the file never decreases and always equals
\* blockSize times the number of live blocks plus free blocks.  In every
\* state of SpecPager, allocBlock of the buffer yields the last free start
\* and leaves the end alone if there is a free block, and yields the end
\* and moves it by blockSize if there is none; an operation that moved the
\* end left no free block.
C21_AllocReuses ==
    /\ pg.P.end = pg.P.blockSize * (Len(pg.P.blocks) + Len(pg.P.free))
    /\ pg.P.end >= pg.was.end
    /\ pg.P.end > pg.was.end => pg.P.free = <<>>
    /\ pg.P.free # <<>> =>
          /\ allocBlock(pg.P).blk.start = pg.P.free[Len(pg.P.free)]
          /\ allocBlock(pg.P).P.end = pg.P.end
          /\ allocBlock(pg.P).P.free = SubSeq(pg.P.free, 1, Len(pg.P.free) - 1)
    /\ pg.P.free = <<>> =>
          /\ allocBlock(pg.P).blk.start = pg.P.end
          /\ allocBlock(pg.P).P.end = pg.P.end + pg.P.blockSize
          /\ allocBlock(pg.P).P.free = <<>>

\* An operation found free blocks, took them all and then extended the file.
C21_Witness ==
    /\ pg.was.free > 0
    /\ pg.P.free = <<>>
    /\ pg.P.end > pg.was.end
    /\ pg.P.err = ""


\* ------------------------------------------------------------------ the journal (log.go)

\* An int64 of the code is the sequence of its four 16-bit parts, the lowest
\* first.  I64(x) is the conversion int64(x) of an int32: the sign of x
\* fills the upper 32 bits.
I64(x) ==
    <<x % 65536, (x \div 65536) % 65536,
      IF x < 0 THEN 65535 ELSE 0, IF x < 0 THEN 65535 ELSE 0>>

\* x + y of two int64.
RECURSIVE carry(_, _, _)
carry(x, y, k) == IF k = 0 THEN 0 ELSE (x[k] + y[k] + carry(x, y, k - 1)) \div 65536
add64(x, y) == [k \in 1..4 |-> (x[k] + y[k] + carry(x, y, k - 1)) % 65536]

\* x | y of two 16-bit parts, and of two int64.
RECURSIVE bitOr(_, _)
bitOr(x, y) ==
    IF x = 0 THEN y
    ELSE IF y = 0 THEN x
    ELSE 2 * bitOr(x \div 2, y \div 2) + (IF x % 2 = 1 \/ y % 2 = 1 THEN 1 ELSE 0)
or64(x, y) == [k \in 1..4 |-> bitOr(x[k], y[k])]

\* x << 32 of an int64.
shl32(x) == <<0, 0, x[1], x[2]>>

\* The int32 that has the two 16-bit parts lo and hi.
int32(lo, hi) == IF hi >= 32768 THEN (hi - 65536) * 65536 + lo ELSE hi * 65536 + lo

\* rune(x & 0xFFFFFFFF) and rune(x >> 32) of an int64: the conversion to rune
\* keeps the lower 32 bits.
low32(x) == int32(x[1], x[2])
high32(x) == int32(x[3], x[4])

\* x < 0 of an int64, and the value of an int64 in 0..2^31-1.
negative64(x) == x[4] >= 32768
fits31(x) == x[3] = 0 /\ x[4] = 0 /\ x[2] < 32768
val31(x) == x[2] * 65536 + x[1]

\* The number of runes of a header.
headerRunes == 7

\* header.insert: the seven runes of the header h.
headerInsert(h) ==
    <<low32(h.from), high32(h.from), low32(h.to), high32(h.to),
      low32(h.size0), high32(h.size0), h.seq>>

\* readHeader: the header that the seven runes rs make.
readHeader(rs) ==
    [from |-> or64(I64(rs[1]), shl32(I64(rs[2]))),
     to |-> or64(I64(rs[3]), shl32(I64(rs[4]))),
     size0 |-> or64(I64(rs[5]), shl32(I64(rs[6]))),
     seq |-> rs[7]]

\* A log over an empty rune buffer.
NewLog == [runes |-> <<>>, n |-> 0, err |-> ""]

\* log.push: the runes of the buffer text at a, then the header, are added
\* at the end of the rune buffer of the log.  The size n is an int64.
push(l, txt, sq, a, n) ==
    [l EXCEPT !.runes = @ \o SubSeq(txt, a.from + 1, a.to)
                          \o headerInsert([from |-> I64(a.from), to |-> add64(I64(a.from), n),
                                          size0 |-> I64(size(a)), seq |-> sq]),
              !.n = @ + 1]

\* What pop returns when it returns no entry.
NoEntry == [from |-> I64(0), to |-> I64(0), size0 |-> I64(0), seq |-> 0, runes |-> <<>>]

\* log.pop, from the header h on; from is the offset of the header.
popEntry(l, h, from) ==
    IF negative64(h.size0) THEN [l |-> [l EXCEPT !.err = "read"], e |-> NoEntry]
    ELSE IF ~fits31(h.size0) \/ val31(h.size0) > from
    THEN [l |-> [l EXCEPT !.err = "bad log"], e |-> NoEntry]
    ELSE [l |-> [l EXCEPT !.runes = SubSeq(@, 1, from - val31(h.size0)), !.n = @ - 1],
          e |-> [from |-> h.from, to |-> h.to, size0 |-> h.size0, seq |-> h.seq,
                 runes |-> SubSeq(l.runes, from - val31(h.size0) + 1, from)]]

\* log.pop: the last entry of the log, which is removed.  Yields the log and
\* the entry.
pop(l) ==
    IF Len(l.runes) - headerRunes < 0
    THEN [l |-> [l EXCEPT !.err = "bad log"], e |-> NoEntry]
    ELSE popEntry(l, readHeader(SubSeq(l.runes, Len(l.runes) - headerRunes + 1, Len(l.runes))),
                  Len(l.runes) - headerRunes)

\* ------------------------------------------------------------------ SpecLog

MaxLogText == 2
MaxLogSeq == 2

\* The sizes that an address changes to: 1, 2^31 - 1, 2^31 and 2^32.
LogSizes == {I64(1), I64(2147483647), <<0, 32768, 0, 0>>, <<0, 0, 1, 0>>}

\* A new buffer and a log over a new rune buffer; pushed is the stack of
\* what was pushed and not popped (the address, the size, and the seq and
\* the runes at the address when it was pushed), got the entry that the last
\* pop returned and want what was on the top of pushed before that pop.
NoPush == [a |-> Pt(0), n |-> I64(0), seq |-> 0, runes |-> <<>>]
InitLog ==
    /\ ev = [text |-> <<>>, seq |-> 0, l |-> NewLog, pushed |-> <<>>, popped |-> FALSE,
             got |-> NoEntry, want |-> NoPush]
    /\ upd = None /\ pg = None
    /\ InitOther

\* Buffer.runes.Insert of one rune at the start of the text; no rune is
\* inserted twice.
DoTextInsert ==
    /\ ev.l.err = ""
    /\ Len(ev.text) < MaxLogText
    /\ ev' = [ev EXCEPT !.text = <<97 + Len(@)>> \o @]
    /\ UNCHANGED <<upd, pg>> /\ UNCHANGED edVars

\* testPush: l.push(b, a, n), then b.seq++.
DoPush(a, n) ==
    /\ ev.l.err = ""
    /\ ev.seq < MaxLogSeq
    /\ IsValid(a, Len(ev.text))
    /\ ev' = [ev EXCEPT !.l = push(ev.l, ev.text, ev.seq, a, n),
                        !.seq = @ + 1,
                        !.pushed = Append(@, [a |-> a, n |-> n, seq |-> ev.seq,
                                              runes |-> SubSeq(ev.text, a.from + 1, a.to)]),
                        !.popped = FALSE, !.got = NoEntry, !.want = NoPush]
    /\ UNCHANGED <<upd, pg>> /\ UNCHANGED edVars

\* l.pop() on a log that holds an entry.
DoPop ==
    /\ ev.l.err = ""
    /\ ev.pushed # <<>>
    /\ ev' = [ev EXCEPT !.l = pop(ev.l).l,
                        !.pushed = SubSeq(@, 1, Len(@) - 1),
                        !.popped = TRUE, !.got = pop(ev.l).e,
                        !.want = ev.pushed[Len(ev.pushed)]]
    /\ UNCHANGED <<upd, pg>> /\ UNCHANGED edVars

NextLog ==
    \/ DoTextInsert
    \/ \E a \in ValidAddrs(MaxLogText), n \in LogSizes : DoPush(a, n)
    \/ DoPop

SpecLog == InitLog /\ [][NextLog]_vars

\* The entry that the claim names for what was pushed as w.
entryOf(w) ==
    [from |-> I64(w.a.from), to |-> add64(I64(w.a.from), w.n), size0 |-> I64(size(w.a)),
     seq |-> w.seq, runes |-> w.runes]

\* C22: the journal is a stack: l.n is the number of pushes minus the number
\* of pops; pop returns the most recent entry not yet popped, with
\* addr = (a.from, a.from + n), size0 = a.size(), the seq of the buffer when
\* it was pushed and the runes of the buffer at a when it was pushed; after
\* everything is popped the rune buffer of the journal is empty.
C22_JournalIsStack ==
    /\ ev.l.err = ""
    /\ ev.l.n = Len(ev.pushed)
    /\ ev.popped => ev.got = entryOf(ev.want)
    /\ ev.pushed = <<>> => ev.l.runes = <<>>

\* The same for the pushes whose a.from + n is below 2^31.
JournalIsStackBelow ==
    /\ ev.l.err = ""
    /\ ev.l.n = Len(ev.pushed)
    /\ (ev.popped /\ fits31(add64(I64(ev.want.a.from), ev.want.n))) => ev.got = entryOf(ev.want)
    /\ ev.pushed = <<>> => ev.l.runes = <<>>

\* A pop returned an entry with runes that was pushed below another one,
\* after the text at its address had changed.
JournalWitness ==
    /\ ev.popped /\ ev.got.runes # <<>>
    /\ ev.want.seq = 0 /\ ev.seq = 2
    /\ SubSeq(ev.text, ev.want.a.from + 1, ev.want.a.to) # ev.want.runes


\* ------------------------------------------------------------------ address strings (Addr, String)

\* A string is the sequence of its runes.  Nil is the nil Address.
Nil == [k |-> "nil"]
Tail0(rs, n) == SubSeq(rs, n + 1, Len(rs))

\* digits, strconv.Atoi and strconv.FormatInt in base 10.
Digits == <<"0", "1", "2", "3", "4", "5", "6", "7", "8", "9">>
isDigit(c) == \E d \in 1..10 : Digits[d] = c
digitVal(c) == (CHOOSE d \in 1..10 : Digits[d] = c) - 1
RECURSIVE Atoi(_)
Atoi(s) == IF s = <<>> THEN 0 ELSE 10 * Atoi(SubSeq(s, 1, Len(s) - 1)) + digitVal(s[Len(s)])
RECURSIVE FormatInt(_)
FormatInt(n) == IF n < 10 THEN <<Digits[n + 1]>> ELSE FormatInt(n \div 10) \o <<Digits[(n % 10) + 1]>>

\* unicode.IsSpace(r) && r != '\n', on the runes of the model.
isBlank(c) == c = " "

\* The first index from n on, counted from 0 as the code counts, whose rune
\* is no digit, and the first whose rune is no blank.
RECURSIVE digitsTo(_, _)
digitsTo(rs, n) == IF n < Len(rs) /\ isDigit(rs[n + 1]) THEN digitsTo(rs, n + 1) ELSE n
RECURSIVE blanksTo(_, _)
blanksTo(rs, n) == IF n < Len(rs) /\ isBlank(rs[n + 1]) THEN blanksTo(rs, n + 1) ELSE n

\* withTrailingDelim, the loop: esc when the rune at index k, from 1, is seen.
RECURSIVE escAt(_, _)
escAt(re, k) == IF k <= 1 THEN FALSE ELSE ~escAt(re, k - 1) /\ re[k - 1] = "\\"

\* withTrailingDelim: re with its first rune added at the end unless it ends
\* in that rune, unescaped.
withTrailingDelim(re) ==
    IF Len(re) = 1 \/ re[Len(re)] # re[1] \/ escAt(re, Len(re)) THEN Append(re, re[1]) ELSE re

\* Regexp: the address of a delimited regular expression.
reAddr(re) == [k |-> "re", rev |-> re[1] = "?", re |-> withTrailingDelim(re)]
Regexp(re) == reAddr(IF Len(re) = 0 THEN <<"/">> ELSE re)

\* Address.String
RECURSIVE String(_)
String(A) ==
    CASE A.k = "dot" -> <<".">>
      [] A.k = "end" -> <<"$">>
      [] A.k = "mark" -> <<"'", A.m>>
      [] A.k = "rune" -> IF A.n < 0 THEN <<"-", "#">> \o FormatInt(0 - A.n)
                         ELSE <<"#">> \o FormatInt(A.n)
      [] A.k = "line" -> IF A.neg THEN <<"-">> \o FormatInt(A.n) ELSE FormatInt(A.n)
      [] A.k = "re" -> A.re
      [] OTHER -> String(A.a1) \o <<A.op>> \o String(A.a2)

\* What the parsers return: the address, the runes left and the error.
parsed(a, rs, err) == [a |-> a, rs |-> rs, err |-> err]

\* re1.Compile with Options{Delimited: true}: the number of runes of rs that
\* the expression takes, n of them being taken so far.  A backslash takes
\* the rune after it if there is one; the closing delimiter is taken if it
\* is there.
RECURSIVE exprEnd(_, _)
exprEnd(rs, n) ==
    IF n = Len(rs) THEN n
    ELSE IF rs[n + 1] = rs[1] THEN n + 1
    ELSE IF rs[n + 1] = "\\" /\ n + 1 < Len(rs) THEN exprEnd(rs, n + 2)
    ELSE exprEnd(rs, n + 1)
Expression(rs) == SubSeq(rs, 1, exprEnd(rs, 1))

\* parseRegexp: the delimited regular expression that rs starts with, as
\* re1.Compile takes it, and the runes after it.
parseRegexp(rs) == [exp |-> Expression(rs), rs |-> Tail0(rs, Len(Expression(rs)))]

\* parseMarkAddr, after the blanks: n is the index of the mark rune.
markAt(rs, n) ==
    IF n >= Len(rs) \/ ~isMarkRune(rs[n + 1]) THEN parsed(Nil, Tail0(rs, n), "bad mark")
    ELSE parsed(Mark(rs[n + 1]), Tail0(rs, n + 1), "")
parseMarkAddr(rs) == markAt(rs, blanksTo(rs, 1))

\* parseRuneAddr and parseLineAddr; n is the index after the digits.
runeTo(rs, n) ==
    parsed(Rune(IF n > 1 THEN Atoi(SubSeq(rs, 2, n)) ELSE Atoi(<<"1">>)), Tail0(rs, n), "")
parseRuneAddr(rs) == runeTo(rs, digitsTo(rs, 1))
lineTo(rs, n) == parsed(Line(Atoi(SubSeq(rs, 1, n))), Tail0(rs, n), "")
parseLineAddr(rs) == lineTo(rs, digitsTo(rs, 1))

\* parseSimpleAddr, the regular expression p parsed.
regexpParsed(p) == parsed(Regexp(p.exp), p.rs, "")

\* parseSimpleAddr
RECURSIVE parseSimpleAddr(_)
parseSimpleAddr(rs) ==
    IF rs = <<>> THEN parsed(Nil, rs, "")
    ELSE CASE rs[1] = "'" -> parseMarkAddr(rs)
           [] rs[1] = "#" -> parseRuneAddr(rs)
           [] isDigit(rs[1]) -> parseLineAddr(rs)
           [] rs[1] \in {"/", "?"} -> regexpParsed(parseRegexp(rs))
           [] rs[1] = "$" -> parsed(End, Tail0(rs, 1), "")
           [] rs[1] = "." -> parsed(Dot, Tail0(rs, 1), "")
           [] isBlank(rs[1]) -> parseSimpleAddr(Tail0(rs, 1))
           [] OTHER -> parsed(Nil, rs, "")

\* simpleFirst
simpleFirst(c) == c \in {"#", "/", "?", "$", ".", "'"} \/ isDigit(c)

\* parseCompoundAddr, the loop, a1 being the address so far; and what it
\* does with a simple address p parsed at the start, after + or -, and with
\* a compound address p parsed after , or ;.
RECURSIVE compoundLoop(_, _)
simpleParsed(a1, p) ==
    IF p.err # "" THEN parsed(Nil, p.rs, p.err)
    ELSE compoundLoop(IF a1.k # "nil" THEN Plus(a1, p.a) ELSE p.a, p.rs)
additiveParsed(a1, op, p) ==
    IF p.err # "" THEN parsed(Nil, p.rs, p.err)
    ELSE IF op = "+" THEN compoundLoop(Plus(a1, IF p.a.k = "nil" THEN Line(1) ELSE p.a), p.rs)
    ELSE compoundLoop(Minus(a1, IF p.a.k = "nil" THEN Line(1) ELSE p.a), p.rs)
compoundParsed(a1, op, p) ==
    IF p.err # "" THEN parsed(Nil, p.rs, p.err)
    ELSE IF op = "," THEN compoundLoop(To(a1, IF p.a.k = "nil" THEN End ELSE p.a), p.rs)
    ELSE compoundLoop(Then(a1, IF p.a.k = "nil" THEN End ELSE p.a), p.rs)
compoundLoop(a1, rs) ==
    IF rs = <<>> THEN parsed(a1, rs, "")
    ELSE IF simpleFirst(rs[1]) THEN simpleParsed(a1, parseSimpleAddr(rs))
    ELSE IF rs[1] \in {"+", "-"}
    THEN additiveParsed(IF a1.k = "nil" THEN Dot ELSE a1, rs[1], parseSimpleAddr(Tail0(rs, 1)))
    ELSE IF rs[1] \in {",", ";"}
    THEN compoundParsed(IF a1.k = "nil" THEN Line(0) ELSE a1, rs[1],
                        compoundLoop(Nil, Tail0(rs, 1)))
    ELSE IF isBlank(rs[1]) THEN compoundLoop(a1, Tail0(rs, 1))
    ELSE parsed(a1, rs, "")
parseCompoundAddr(rs) == compoundLoop(Nil, rs)

\* Addr: the address that rs starts with and the runes after it, without the
\* newline that ends the address.
trimmed(p) == IF p.rs # <<>> /\ p.rs[1] = NL THEN [p EXCEPT !.rs = Tail0(@, 1)] ELSE p
ParseAddr(rs) == trimmed(parseCompoundAddr(rs))

\* ------------------------------------------------------------------ SpecString

MaxAddrLen == 4

\* The inputs of Addr: the strings of up to MaxAddrLen runes over the
\* operators and simple addresses, over a regular expression delimited by /
\* or by ? with an escape, and over blanks and the newline.  No rune of a
\* regular expression is a metacharacter, so that every one compiles.
AlphaOps == {"#", "1", "+", "-", ",", ";", ".", "$", "'", "m"}
AlphaFwd == {"/", "m", "\\", "0", "1", "+"}
AlphaRev == {"?", "m", "\\", ","}
AlphaBlank == {" ", NL, "'", "m", "1", "#", ","}
Strs(S, n) == UNION {[1..k -> S] : k \in 0..n}
AddrInputs ==
    Strs(AlphaOps, MaxAddrLen) \cup Strs(AlphaFwd, MaxAddrLen)
        \cup Strs(AlphaRev, MaxAddrLen) \cup Strs(AlphaBlank, MaxAddrLen)

NoParse == parsed(Nil, <<>>, "")
InitString ==
    /\ \E rs \in AddrInputs :
          ev = [rs |-> rs, done |-> FALSE, p |-> NoParse, str |-> <<>>, q |-> NoParse]
    /\ upd = None /\ pg = None
    /\ InitOther

\* The string of the address p.a if Addr returned one, else no string.
stringOf(p) == IF p.err = "" /\ p.a.k # "nil" THEN String(p.a) ELSE <<>>

\* TestAddressString on an address that Addr made of ev.rs: Addr(rs),
\* String() of the address, and Addr of that string.
DoAddrString ==
    /\ ~ev.done
    /\ ev' = [ev EXCEPT !.done = TRUE, !.p = ParseAddr(ev.rs),
                        !.str = stringOf(ParseAddr(ev.rs)),
                        !.q = ParseAddr(stringOf(ParseAddr(ev.rs)))]
    /\ UNCHANGED <<upd, pg>> /\ UNCHANGED edVars

NextString == DoAddrString

SpecString == InitString /\ [][NextString]_vars

\* C23: for any address A that Addr produced by parsing, parsing A.String()
\* yields an address structurally equal to A, with no error and no input
\* left.
C23_StringRoundTrip ==
    (ev.done /\ ev.p.err = "" /\ ev.p.a.k # "nil") =>
        /\ ev.q.err = ""
        /\ ev.q.a = ev.p.a
        /\ ev.q.rs = <<>>


\* The same for the inputs that do not end in a backslash.
StringRoundTripClosed ==
    (ev.done /\ ev.p.err = "" /\ ev.p.a.k # "nil"
        /\ (ev.rs = <<>> \/ ev.rs[Len(ev.rs)] # "\\")) =>
        /\ ev.q.err = ""
        /\ ev.q.a = ev.p.a
        /\ ev.q.rs = <<>>

\* Addr made a compound address with a default operand and a line number
\* with a leading zero or a blank in the input, whose string is not the
\* input.
StringWitness ==
    /\ ev.done /\ ev.p.err = "" /\ ev.p.a.k = "compound"
    /\ ev.str # ev.rs
    /\ ev.q.a = ev.p.a


\* ------------------------------------------------------------------ SpecLine

MaxLineText == 4
MaxLineN == 3

\* addressTest.run of a line address: Line(n) evaluated from the offset from
\* of a text.
InitLine ==
    /\ \E txt \in Texts(MaxLineText) :
       \E n \in (0 - MaxLineN)..MaxLineN, from \in 0..Len(txt) :
          ev = [text |-> txt, n |-> n, from |-> from, done |-> FALSE,
                res |-> Ok(Pt(0), NoMarks)]
    /\ upd = None /\ pg = None
    /\ InitOther

DoLine ==
    /\ ~ev.done
    /\ ev' = [ev EXCEPT !.done = TRUE,
                        !.res = whereFrom(Line(ev.n), ev.from, NoMarks, ev.text)]
    /\ UNCHANGED <<upd, pg>> /\ UNCHANGED edVars

NextLine == DoLine

SpecLine == InitLine /\ [][NextLine]_vars

\* The offsets just after the newlines of a text, the offset just after its
\* k-th newline, the start of the line that holds the offset p (the offset
\* after the last newline before p, or 0) and the end of that line (the
\* offset after the first newline from p on, or the end of the text).
Newlines(txt) == {i \in 1..Len(txt) : txt[i] = NL}
afterNewline(txt, k) ==
    CHOOSE i \in Newlines(txt) : Cardinality({j \in Newlines(txt) : j < i}) = k - 1
lineStart(txt, p) ==
    IF \E i \in Newlines(txt) : i <= p
    THEN CHOOSE i \in Newlines(txt) : i <= p /\ \A j \in Newlines(txt) : j <= p => j <= i
    ELSE 0
lineEnd(txt, p) ==
    IF \E i \in Newlines(txt) : i > p
    THEN CHOOSE i \in Newlines(txt) : i > p /\ \A j \in Newlines(txt) : j > p => i <= j
    ELSE Len(txt)

\* C24: evaluated at the start of the buffer, Line(0) yields (0,0), and
\* Line(n) for n >= 1 fails with a line-out-of-range error exactly when the
\* text has fewer than n-1 newlines; otherwise it yields the range from just
\* after the (n-1)th newline (0 for n = 1) through the n-th newline, or to
\* the end of the buffer when there is no n-th newline.
C24_LineFromStart ==
    (ev.done /\ ev.from = 0 /\ ev.n >= 0) =>
        IF ev.n = 0 THEN ev.res.err = "" /\ ev.res.a = Pt(0)
        ELSE IF Cardinality(Newlines(ev.text)) < ev.n - 1
        THEN ev.res.err = "line address out of range"
        ELSE /\ ev.res.err = ""
             /\ ev.res.a.from = (IF ev.n = 1 THEN 0 ELSE afterNewline(ev.text, ev.n - 1))
             /\ ev.res.a.to = (IF Cardinality(Newlines(ev.text)) >= ev.n
                               THEN afterNewline(ev.text, ev.n) ELSE Len(ev.text))

\* Line(2) on a text of three lines yields the second one, which starts after
\* the start of the buffer and ends before its end.
C24_Witness ==
    /\ ev.done /\ ev.from = 0 /\ ev.n = 2
    /\ ev.res.err = "" /\ ev.res.a.from > 0 /\ ev.res.a.to < Len(ev.text)
    /\ ev.res.a.to > ev.res.a.from + 1

\* An offset is strictly inside a line if the rune before it and the rune
\* after it are runes of one line: it is neither the start of the buffer,
\* nor just after a newline, nor the end of the buffer.
insideLine(txt, p) == p > 0 /\ p < Len(txt) /\ txt[p] # NL

\* The line before the line that starts at the offset b, newline included;
\* (0,0) if b is the start of the buffer.
lineBefore(txt, b) == IF b = 0 THEN Pt(0) ELSE Addr(lineStart(txt, b - 1), b)

\* C25 as the specification states it: Line(-1) evaluated from an offset
\* strictly inside a line returns the whole line that encloses the offset;
\* evaluated from a line boundary it returns the previous line.
C25_EnclosingLine ==
    (ev.done /\ ev.n = 0 - 1) =>
        /\ ev.res.err = ""
        /\ ev.res.a = IF insideLine(ev.text, ev.from)
                      THEN Addr(lineStart(ev.text, ev.from), lineEnd(ev.text, ev.from))
                      ELSE lineBefore(ev.text, lineStart(ev.text, ev.from))

\* C25, amended: Line(-1) evaluated from any offset returns the line before
\* the line that holds the offset, through the newline that ends it, and
\* (0,0) if the offset is on the first line: from a line boundary and from
\* inside a line alike it returns the previous line, never the enclosing
\* one.
C25_PreviousLine ==
    (ev.done /\ ev.n = 0 - 1) =>
        /\ ev.res.err = ""
        /\ ev.res.a = lineBefore(ev.text, lineStart(ev.text, ev.from))

\* Line(-1) from inside the second line returned the first line.
C25_Witness ==
    /\ ev.done /\ ev.n = 0 - 1
    /\ insideLine(ev.text, ev.from) /\ lineStart(ev.text, ev.from) > 1
    /\ ev.res.err = "" /\ ev.res.a = Addr(0, lineStart(ev.text, ev.from))


\* ------------------------------------------------------------------ SpecSolo

\* The edits of the only editor of SpecSolo: changes, insertions and
\* deletions at simple, additive and compound addresses, one of which sets
\* dot (;), one of which fails (the far rune) and one of which evaluates to
\* a range with from > to ($,#0).
SoloEdits ==
    { Delete(All),
      Delete(Line(1)),
      Delete(Mark("m")),
      Change(Dot, <<"a">>),
      Change(Rune(1), <<NL>>),
      Change(To(Rune(1), End), <<"a">>),
      Change(Then(Rune(1), Plus(Dot, Rune(1))), <<>>),
      AppendEd(Mark("m"), <<"a">>),
      InsertEd(End, <<"a">>),
      Change(Rune(FarRune), <<"a">>),
      Change(To(End, Rune(0)), <<"a">>) }

\* One editor on a buffer that holds a text, with dot and the mark m at
\* some ranges of it, as the set-up of the tests leaves them.
InitSolo ==
    /\ text \in InitTexts
    /\ seq = 0
    /\ eds = <<1>>
    /\ who = 1
    /\ \E d \in ValidAddrs(Len(text)), m \in {Pt(0), Addr(1, 2), Addr(0, Len(text))} :
          marks = [e \in {1} |-> Put(Put(NoMarks, ".", d), "m", m)]
    /\ pending = [e \in {1} |-> <<>>]
    /\ pc = [e \in {1} |-> "idle"]
    /\ loc = [e \in {1} |-> LocIdle]
    /\ hist = [n |-> 0, serial |-> text]
    /\ upd = None /\ ev = None /\ pg = None

NextSolo ==
    \/ \E E \in SoloEdits : Begin(1, E)
    \/ Snapshot(1)
    \/ PendChanges(1)
    \/ ApplyChanges(1)
    \/ SetDot(1)
    \/ Return(1)

SpecSolo == InitSolo /\ [][NextSolo]_vars

\* C26: for a single editor on a buffer, after any sequence of committed
\* edits whose addresses evaluate to valid ranges, every mark of the editor,
\* dot included, satisfies 0 <= from <= to <= size of the buffer.  It holds
\* whenever no Do is in progress, after the edits that failed as well.
C26_SoloMarksValid ==
    pc[1] = "idle" => \A m \in marks[1].has : IsValid(marks[1].a[m], Len(text))

\* Two edits are committed, and the mark m is at a range that it did not
\* start at: a commit moved it.
C26_Witness ==
    /\ pc[1] = "idle" /\ hist.n >= 2
    /\ Get(marks[1], "m").from = 2
    /\ Get(marks[1], ".") # Pt(0)


\* ------------------------------------------------------------------ runes.LimitedReader

\* SliceReader.Read into a slice of len runes: the reader after it, the
\* runes read and the error.
SliceReaderRead(rs, len) ==
    IF Len(rs) = 0 THEN [rs |-> rs, out |-> <<>>, err |-> EOF]
    ELSE [rs |-> Tail0(rs, Min(len, Len(rs))), out |-> SubSeq(rs, 1, Min(len, Len(rs))),
          err |-> NoErr]

\* LimitedReader.Size
LimitedReaderSize(r) == r.N - r.n

\* LimitedReader.Read without the limit on the slice it hands to the
\* underlying reader.
limitedUnclipped(r, len) == len

\* LimitedReader.Read: the length of the slice that it hands to the
\* underlying reader.
limited(r, len) == IF LimitedReaderSize(r) < len THEN LimitedReaderSize(r) ELSE len

\* LimitedReader.Read, after the Read u of the underlying reader.
limitedReturned(r, u) ==
    [r |-> [r EXCEPT !.rs = u.rs, !.n = @ + Len(u.out)], out |-> u.out, err |-> u.err,
     under |-> TRUE]

\* LimitedReader.Read into a slice of len runes: the reader after it, the
\* runes read, the error, and whether the underlying reader was read.
LimitedReaderRead(r, len) ==
    IF r.n >= r.N THEN [r |-> r, out |-> <<>>, err |-> EOF, under |-> FALSE]
    ELSE limitedReturned(r, SliceReaderRead(r.rs, limited(r, len)))

\* ------------------------------------------------------------------ SpecReader

MaxLimit == 3
MaxReadLen == 2

\* A LimitedReader with a limit N over a SliceReader of some runes, more or
\* fewer than N; got is what the reads returned so far, last the last read
\* and the number of runes returned before it.
NoRead == [len |-> 0, before |-> 0, out |-> <<>>, err |-> NoErr, under |-> FALSE]
InitReader ==
    /\ \E N \in 0..MaxLimit, k \in 0..(MaxLimit + 1) :
          ev = [r |-> [rs |-> [i \in 1..k |-> i], N |-> N, n |-> 0], got |-> <<>>,
                reads |-> 0, last |-> NoRead]
    /\ upd = None /\ pg = None
    /\ InitOther

\* r.Read(make([]rune, len)), as readOK and runWithSize call it; the number
\* of reads is bounded.
DoRead(len) ==
    /\ ev.reads < 2 * MaxLimit + 2
    /\ ev' = [ev EXCEPT !.r = LimitedReaderRead(ev.r, len).r,
                        !.got = @ \o LimitedReaderRead(ev.r, len).out,
                        !.reads = @ + 1,
                        !.last = [len |-> len, before |-> Len(ev.got),
                                  out |-> LimitedReaderRead(ev.r, len).out,
                                  err |-> LimitedReaderRead(ev.r, len).err,
                                  under |-> LimitedReaderRead(ev.r, len).under]]
    /\ UNCHANGED <<upd, pg>> /\ UNCHANGED edVars

NextReader == \E len \in 0..MaxReadLen : DoRead(len)

SpecReader == InitReader /\ [][NextReader]_vars

\* C27: a LimitedReader returns at most N runes in total, Size() is N minus
\* the number of runes returned so far, and once N runes are returned every
\* further Read returns (0, io.EOF) without reading the underlying reader.
C27_LimitedReader ==
    /\ Len(ev.got) <= ev.r.N
    /\ LimitedReaderSize(ev.r) = ev.r.N - Len(ev.got)
    /\ (ev.reads > 0 /\ ev.last.before >= ev.r.N) =>
          /\ ev.last.out = <<>>
          /\ ev.last.err = EOF
          /\ ~ev.last.under

\* N runes were returned by several reads, the underlying reader has runes
\* left, and one more Read returned io.EOF.
C27_Witness ==
    /\ ev.r.N >= 2 /\ Len(ev.got) = ev.r.N /\ ev.reads >= 3
    /\ ev.r.rs # <<>>
    /\ ev.last.before = ev.r.N /\ ev.last.len > 0 /\ ev.last.err = EOF

-----------------------------------------------------------------------------
\* fixAddrs and the loop of applyChanges on a journal (SpecFix).
\*
\* The journal is what phase one of an edit pends: entries with ranges inside
\* the phase-one snapshot of the buffer, each with its replacement runes.

MaxFixPos == 2
MaxFixLen == 3

FixText == <<"a", "b", "c", "d", "e">>
FixRunes == <<"p", "q", "r", "s", "t">>
FixSizes == {0, 2}

\* The replacement runes of the k-th entry: n copies of a rune of its own.
fixData(k, n) == [i \in 1..n |-> FixRunes[k]]

\* The journals of n entries with ranges inside a text of MaxFixPos runes.
Journals(n) ==
    {[k \in 1..n |-> Entry(as[k], fixData(k, ns[k]))] :
        as \in [1..n -> ValidAddrs(MaxFixPos)], ns \in [1..n -> FixSizes]}

NoFix == [err |-> "", at |-> Pt(0), log |-> <<>>]

InitFix ==
    /\ InitOther
    /\ upd = None /\ pg = None
    /\ \E n \in 0..MaxFixLen : \E l \in Journals(n) :
         ev = [text |-> SubSeq(FixText, 1, MaxFixPos), l |-> l,
               at |-> Addr(0, MaxFixPos), done |-> FALSE, fx |-> NoFix,
               out |-> SubSeq(FixText, 1, MaxFixPos)]

\* pendChanges' call of fixAddrs on the journal, then the loop of applyChanges
\* over the fixed journal; a rejected journal leaves the buffer alone.
DoFix ==
    /\ ~ev.done
    /\ ev' = [ev EXCEPT !.done = TRUE,
                        !.fx = fixAddrs(ev.at, ev.l),
                        !.out = IF fixAddrs(ev.at, ev.l).err # "" THEN ev.text
                                ELSE applyEntries(fixAddrs(ev.at, ev.l).log, 1, ev.text,
                                                  <<NoMarks>>, <<1>>).text]
    /\ UNCHANGED <<upd, pg>>
    /\ UNCHANGED edVars

NextFix == DoFix

SpecFix == InitFix /\ [][NextFix]_vars

\* Some entry of l starts before the end of an earlier entry that differs from it.
outOfSequence(l) ==
    \E i \in 1..Len(l) : \E j \in (i + 1)..Len(l) :
        l[j].at # l[i].at /\ l[j].at.from < l[i].at.to

\* C28: fixAddrs rejects a journal with "changes not in sequence" exactly when
\* some entry starts before the end of any earlier entry that differs from it,
\* whether or not the two are adjacent; a rejected journal has no entry
\* rewritten and the buffer is as it was.
C28_RejectsOutOfSequence ==
    ev.done =>
        /\ (ev.fx.err = "changes not in sequence") = outOfSequence(ev.l)
        /\ ev.fx.err # "" => ev.fx.log = ev.l /\ ev.out = ev.text
        /\ ev.fx.err \in {"", "changes not in sequence"}

\* A journal of three entries is rejected because its third entry starts before
\* the end of the first, which it is not adjacent to.
C28_Witness ==
    /\ ev.done /\ Len(ev.l) = 3
    /\ ev.fx.err = "changes not in sequence"
    /\ ev.l[3].at # ev.l[1].at /\ ev.l[3].at.from < ev.l[1].at.to
    /\ ev.fx.log = ev.l /\ ev.out = ev.text

\* The simultaneous replacement of the ranges of the entries 1..i of l in txt:
\* the entries are in sequence, so replacing from the last to the first never
\* moves a range that is still to be replaced.
RECURSIVE simultaneous(_, _, _)
simultaneous(l, i, txt) ==
    IF i = 0 THEN txt
    ELSE simultaneous(l, i - 1, Splice(txt, l[i].at.from, l[i].at.to, l[i].data))

pairwiseDistinct(l) == \A i \in 1..Len(l) : \A j \in 1..Len(l) : i # j => l[i].at # l[j].at

\* C29: for a journal of pairwise distinct entries that are in sequence in
\* phase-one coordinates, fixAddrs and then applying the entries in order gives
\* the text that replacing all the ranges at once in the phase-one snapshot gives.
C29_AsSimultaneous ==
    (ev.done /\ pairwiseDistinct(ev.l) /\ ~outOfSequence(ev.l)) =>
        /\ ev.fx.err = ""
        /\ ev.out = simultaneous(ev.l, Len(ev.l), ev.text)

\* Three distinct entries, the first growing the text and the second deleting,
\* so that the later ranges had to move both ways.
C29_Witness ==
    /\ ev.done /\ Len(ev.l) = 3 /\ pairwiseDistinct(ev.l) /\ ~outOfSequence(ev.l)
    /\ ev.l[1].size > size(ev.l[1].at)
    /\ ev.l[2].size < size(ev.l[2].at)
    /\ ev.fx.log[3].at # ev.l[3].at
    /\ ev.out = simultaneous(ev.l, 3, ev.text)

-----------------------------------------------------------------------------
\* applyChanges, the retry (Spec).

\* C30: when applyChanges finds that the buffer's seq is not the seq its
\* attempt read in phase one, it returns retry (do goes back to snapshotting
\* the marks) and the text of the buffer, its seq and the marks of every
\* editor are what they were.
C30_RetryLeavesBuffer ==
    [][\A e \in DOMAIN pc :
          (pc[e] = "apply" /\ seq # loc[e].seq /\ pc'[e] # "apply") =>
              /\ pc'[e] = "snap"
              /\ text' = text
              /\ seq' = seq
              /\ marks' = marks]_vars

\* An attempt that pended a change was sent back to phase one by applyChanges
\* after another editor's commit, and the buffer holds that commit only.
C30_Witness ==
    \E e \in DOMAIN pc :
        /\ pc[e] = "snap" /\ loc[e].retried
        /\ pending[e] # <<>>
        /\ hist.n = 1 /\ seq = 1
        /\ text = hist.serial

-----------------------------------------------------------------------------
\* Editor.Where and the marks (SpecAddr).

\* C31: Editor.Where(a) only reads: for every address a, compounds with ;
\* included, the marks of the editor, dot among them, are after the call what
\* they were before it, whether the call returns a range or an error.  (The
\* call has no statement that writes the text or the seq.)
C31_WhereReadOnly ==
    ev.done => ev.res.mk = ev.mk

\* Without a ; in the address, Where leaves the marks as they were.
WhereReadOnlyWithoutThen ==
    (ev.done /\ ~HasThen(ev.A)) => ev.res.mk = ev.mk

\* A Where of an address with ; has returned a range and dot is now another range.
WhereMovedDot ==
    /\ ev.done /\ HasThen(ev.A) /\ ev.res.err = ""
    /\ Get(ev.res.mk, ".") # Get(ev.mk, ".")

-----------------------------------------------------------------------------
\* Regexp.Match with the cache of machines (SpecMach).

nCache == 2

MaxMatches == 2

\* Regexp.get: the last machine of the cache, or a new one.
getMach(ms, re) ==
    IF ms # <<>> THEN [m |-> ms[Len(ms)], ms |-> SubSeq(ms, 1, Len(ms) - 1)]
    ELSE [m |-> newMach(re), ms |-> ms]

\* Regexp.put: m.es = nil, and the machine goes back unless the cache is full.
putMach(ms, m) ==
    IF Len(ms) < nCache THEN Append(ms, [m EXCEPT !.es = <<>>]) ELSE ms

\* The two loops of Regexp.Match on machine m, from the k-th start position
\* on: the submatch vector (<<>> is nil), the start position it was found at
\* and the machine as the loops leave it.
RECURSIVE matchFrom(_, _, _, _, _)
matchedAt(r, re, rs, order, k) ==
    IF r.es # <<>> THEN [es |-> r.es, at |-> order[k], m |-> r.m]
    ELSE matchFrom(r.m, re, rs, order, k + 1)
matchFrom(m, re, rs, order, k) ==
    IF k > Len(order) THEN [es |-> <<>>, at |-> 0, m |-> m]
    ELSE matchedAt(match([m EXCEPT !.at = order[k]], re, rs), re, rs, order, k)

\* Regexp.Match on a Regexp whose cache is ms: get, the two loops, put.
returned(got, r) == [es |-> r.es, at |-> r.at, ms |-> putMach(got.ms, r.m)]
matchGot(got, re, rs, from) ==
    returned(got, matchFrom(got.m, re, rs, searchOrder(from, Len(rs)), 1))
MatchCached(ms, re, rs, from) == matchGot(getMach(ms, re), re, rs, from)

\* What mach.match returns at start position at on a machine fresh from newMach.
matchClean(re, rs, at) == match([newMach(re) EXCEPT !.at = at], re, rs).es

\* The expressions of SpecMach, all with subexpressions:
\* (a)a|\n   (a)(.?)   a(\na)?   (a)*\n   (a|\n)+   ((a)\n|a)a
MachPatterns ==
    {reOr(reCat(reParen(reRune("a")), reRune("a")), reRune(NL)),
     reCat(reParen(reRune("a")), reParen(reQuestion(reDot))),
     reCat(reRune("a"), reQuestion(reParen(reCat(reRune(NL), reRune("a"))))),
     reCat(reStar(reParen(reRune("a"))), reRune(NL)),
     rePlus(reParen(reOr(reRune("a"), reRune(NL)))),
     reCat(reParen(reOr(reCat(reParen(reRune("a")), reRune(NL)), reRune("a"))), reRune("a"))}

InitMach ==
    /\ InitOther
    /\ upd = None /\ pg = None
    /\ \E e \in MachPatterns :
         ev = [e |-> e, ms |-> <<>>, calls |-> 0, text |-> <<>>, from |-> 0,
               es |-> <<>>, at |-> 0, clean |-> <<>>]

\* One call re.Match(rs, from) on the Regexp compiled from ev.e; clean is what
\* a machine fresh from newMach returns at the start position of the match.
matchCalled(e, calls, txt, from, re, r) ==
    [e |-> e, calls |-> calls + 1, text |-> txt, from |-> from,
     es |-> r.es, at |-> r.at, ms |-> r.ms,
     clean |-> IF r.es = <<>> THEN <<>> ELSE matchClean(re, txt, r.at)]
matchCall(e, calls, txt, from, ms, re) ==
    matchCalled(e, calls, txt, from, re, MatchCached(ms, re, txt, from))
DoMatch(txt, from) ==
    /\ ev.calls < MaxMatches
    /\ from <= Len(txt)
    /\ ev' = matchCall(ev.e, ev.calls, txt, from, ev.ms, Compile(ev.e, FALSE))
    /\ UNCHANGED <<upd, pg>>
    /\ UNCHANGED edVars

NextMach == \E txt \in Texts(MaxTextLen), from \in 0..MaxTextLen : DoMatch(txt, from)

SpecMach == InitMach /\ [][NextMach]_vars

\* The interval of a submatch vector entry is empty.
emptySub(iv) == iv[1] = iv[2]

\* The interval iv lies inside the interval of the whole match.
insideMatch(iv, whole) == whole[1] <= iv[1] /\ iv[1] <= iv[2] /\ iv[2] <= whole[2]

\* C32: in the vector Match returns, a subexpression that did not take part
\* in the match has an empty interval, whatever start positions the call
\* tried before and whatever earlier calls used the machine: every entry is
\* empty or is the interval of a part of the returned match.
C32_NoStaleSubmatch ==
    (ev.calls > 0 /\ ev.es # <<>>) =>
        \A k \in 1..Len(ev.es) : emptySub(ev.es[k]) \/ insideMatch(ev.es[k], ev.es[1])

\* The whole match is the one a machine fresh from newMach returns.
WholeMatchAsClean ==
    (ev.calls > 0 /\ ev.es # <<>>) => ev.es[1] = ev.clean[1]

\* A returned vector holds a non-empty interval outside the match that a
\* machine fresh from newMach does not report.
StaleSubmatch ==
    /\ ev.calls > 0 /\ ev.es # <<>>
    /\ \E k \in 2..Len(ev.es) :
          /\ ~emptySub(ev.es[k]) /\ emptySub(ev.clean[k])
          /\ ~insideMatch(ev.es[k], ev.es[1])

\* The same from a machine that an earlier call has left in the cache, in a
\* call whose first start position has the match.
StaleFromCache ==
    /\ ev.calls = 2 /\ ev.es # <<>> /\ ev.at = ev.from
    /\ \E k \in 2..Len(ev.es) :
          /\ ~emptySub(ev.es[k]) /\ emptySub(ev.clean[k])
          /\ ~insideMatch(ev.es[k], ev.es[1])

\* A machine fresh from newMach reports a non-empty interval outside the
\* match: the path of the match skipped a starred or optional subexpression.
SkippedSubmatch ==
    /\ ev.calls > 0 /\ ev.es # <<>>
    /\ \E k \in 2..Len(ev.clean) :
          ~emptySub(ev.clean[k]) /\ ~insideMatch(ev.clean[k], ev.clean[1])

-----------------------------------------------------------------------------
\* Concurrent Match calls on one Regexp and its cache of machines (SpecCache).
\*
\* A machine is known by its identity here; a call is get under the mutex,
\* m.rs = rs, the two loops on the machine, the deferred put: m.es = nil and
\* then the append under the mutex.

MaxCallers == 3

Callers == 1..MaxCallers
MachIds == 1..(MaxCallers + nCache)

\* The machines that are in the cache or in the hands of a call.
liveMachs(ms, held) == ({ms[i] : i \in 1..Len(ms)} \cup {held[t] : t \in DOMAIN held}) \ {0}

\* newMach: a machine that is none of the live ones.
freshMach(ms, held) ==
    CHOOSE i \in MachIds \ liveMachs(ms, held) : \A j \in MachIds \ liveMachs(ms, held) : i <= j

\* A put that appends whatever the length of the cache.
cachePutAlways(ms, m) == Append(ms, m)

\* The critical section of Regexp.put.
cachePut(ms, m) == IF Len(ms) < nCache THEN Append(ms, m) ELSE ms

\* The critical section of Regexp.get: the machine and the cache afterwards.
cacheGet(ms, held) ==
    IF Len(ms) > 0 THEN [m |-> ms[Len(ms)], ms |-> SubSeq(ms, 1, Len(ms) - 1)]
    ELSE [m |-> freshMach(ms, held), ms |-> ms]

InitCache ==
    /\ InitOther
    /\ upd = None /\ pg = None
    /\ ev = [ms |-> <<>>,
             pc |-> [t \in Callers |-> "idle"],
             m |-> [t \in Callers |-> 0],
             user |-> [i \in MachIds |-> 0],
             shared |-> FALSE]

\* The call of caller t touches its machine: shared records that another call
\* is using the same machine at this moment.
touched(t) ==
    ev.shared \/ \E u \in Callers : u # t /\ ev.m[u] = ev.m[t]

\* re.get(rs), the critical section
CacheGet(t) ==
    /\ ev.pc[t] = "idle"
    /\ liveMachs(ev.ms, ev.m) # MachIds
    /\ ev' = [ev EXCEPT !.pc[t] = "rs",
                        !.m[t] = cacheGet(ev.ms, ev.m).m,
                        !.ms = cacheGet(ev.ms, ev.m).ms]

\* m.rs = rs, after the mutex is released
SetRs(t) ==
    /\ ev.pc[t] = "rs"
    /\ ev' = [ev EXCEPT !.pc[t] = "loops", !.user[ev.m[t]] = t, !.shared = touched(t)]

\* the two loops of Match on m
Loops(t) ==
    /\ ev.pc[t] = "loops"
    /\ ev' = [ev EXCEPT !.pc[t] = "defer", !.shared = touched(t) \/ ev.user[ev.m[t]] # t]

\* re.put(m): m.es = nil, before the mutex is taken
ClearEs(t) ==
    /\ ev.pc[t] = "defer"
    /\ ev' = [ev EXCEPT !.pc[t] = "lock", !.shared = touched(t) \/ ev.user[ev.m[t]] # t]

\* re.put(m), the critical section; the call returns
CachePut(t) ==
    /\ ev.pc[t] = "lock"
    /\ ev' = [ev EXCEPT !.pc[t] = "idle", !.m[t] = 0, !.ms = cachePut(ev.ms, ev.m[t])]

NextCache ==
    \E t \in Callers :
        \/ CacheGet(t) /\ UNCHANGED <<upd, pg>> /\ UNCHANGED edVars
        \/ SetRs(t) /\ UNCHANGED <<upd, pg>> /\ UNCHANGED edVars
        \/ Loops(t) /\ UNCHANGED <<upd, pg>> /\ UNCHANGED edVars
        \/ ClearEs(t) /\ UNCHANGED <<upd, pg>> /\ UNCHANGED edVars
        \/ CachePut(t) /\ UNCHANGED <<upd, pg>> /\ UNCHANGED edVars

SpecCache == InitCache /\ [][NextCache]_vars

\* C33: under concurrent Match calls on one Regexp no machine is used by two
\* calls at the same time, and the cache of machines never holds more than
\* nCache machines nor the same machine twice.
C33_MachinesNotShared ==
    /\ ~ev.shared
    /\ \A t \in Callers, u \in Callers : (t # u /\ ev.m[t] # 0) => ev.m[t] # ev.m[u]
    /\ \A t \in Callers : \A i \in 1..Len(ev.ms) : ev.ms[i] # ev.m[t]
    /\ Len(ev.ms) <= nCache
    /\ \A i \in 1..Len(ev.ms), j \in 1..Len(ev.ms) : i # j => ev.ms[i] # ev.ms[j]

\* A call has just got from the cache the machine that another caller used
\* last, while that caller is inside Match again, in its loops on another
\* machine.
C33_Witness ==
    \E t \in Callers, u \in Callers :
        /\ t # u
        /\ ev.pc[t] = "rs" /\ ev.user[ev.m[t]] = u
        /\ ev.pc[u] = "loops" /\ ev.m[u] # ev.m[t]

\* The cache is full and a call is about to put a third machine.
CacheFull ==
    Len(ev.ms) = nCache /\ \E t \in Callers : ev.pc[t] = "lock"

-----------------------------------------------------------------------------
\* The buffer's lock under concurrent Do, Where, NewEditor and Close (SpecLock).
\*
\* Buffer.lock is a sync.RWMutex: RLock waits while a writer holds the lock or
\* has asked for it, Lock first asks for it, which keeps new readers and other
\* writers out, and then waits for the readers that are in to leave.

MaxLockers == 3

Lockers == 1..MaxLockers
LockOps == {"do", "where", "neweditor", "close"}

\* An RUnlock that leaves the caller among the readers.
rUnlockKept(L, t) == L

\* RWMutex.RUnlock by t
rUnlock(L, t) == [L EXCEPT !.readers = @ \ {t}]

\* RWMutex.RLock can return; RWMutex.Lock can ask; RWMutex.Lock can return.
canRLock(L) == L.writer = 0 /\ L.pending = 0
canAsk(L) == L.writer = 0 /\ L.pending = 0
canLock(L, t) == L.pending = t /\ L.readers = {}

InitLock ==
    /\ InitOther
    /\ upd = None /\ pg = None
    /\ ev = [L |-> [readers |-> {}, writer |-> 0, pending |-> 0],
             pc |-> [t \in Lockers |-> "idle"],
             op |-> [t \in Lockers |-> "where"],
             stale |-> [t \in Lockers |-> FALSE]]

\* A thread calls Do, Where, NewEditor or Close: Do (in pendChanges) and Where
\* start with RLock, NewEditor and Close with Lock.
LockCall(t, op) ==
    /\ ev.pc[t] = "idle"
    /\ ev' = [ev EXCEPT !.op[t] = op,
                        !.pc[t] = IF op \in {"do", "where"} THEN "rlock" ELSE "lock"]

\* buf.lock.RLock() returns, in pendChanges or Where; pendChanges reads seq.
RLockReturns(t) ==
    /\ ev.pc[t] = "rlock"
    /\ canRLock(ev.L)
    /\ ev' = [ev EXCEPT !.pc[t] = "read", !.L.readers = @ \cup {t}, !.stale[t] = FALSE]

\* Where: the address is evaluated and the deferred RUnlock runs.
WhereReturns(t) ==
    /\ ev.pc[t] = "read" /\ ev.op[t] = "where"
    /\ ev' = [ev EXCEPT !.pc[t] = "idle", !.L = rUnlock(ev.L, t)]

\* pendChanges: phase one has run and the deferred RUnlock runs; with an
\* error from phase one or from fixAddrs do returns, else it calls applyChanges.
PendReturns(t, err) ==
    /\ ev.pc[t] = "read" /\ ev.op[t] = "do"
    /\ ev' = [ev EXCEPT !.pc[t] = IF err THEN "idle" ELSE "lock", !.L = rUnlock(ev.L, t)]

\* buf.lock.Lock(), first half: the writer asks for the lock.
LockAsks(t) ==
    /\ ev.pc[t] = "lock"
    /\ canAsk(ev.L)
    /\ ev' = [ev EXCEPT !.pc[t] = "pending", !.L.pending = t]

\* buf.lock.Lock() returns, in applyChanges, NewEditor or Close.
LockReturns(t) ==
    /\ ev.pc[t] = "pending"
    /\ canLock(ev.L, t)
    /\ ev' = [ev EXCEPT !.pc[t] = "write", !.L.pending = 0, !.L.writer = t]

\* NewEditor and Close: the list of editors is changed and the deferred Unlock runs.
ListReturns(t) ==
    /\ ev.pc[t] = "write" /\ ev.op[t] \in {"neweditor", "close"}
    /\ ev' = [ev EXCEPT !.pc[t] = "idle", !.L.writer = 0]

\* applyChanges finds another seq than phase one read: Unlock, and do starts
\* again at pendChanges.
ApplyRetries(t) ==
    /\ ev.pc[t] = "write" /\ ev.op[t] = "do" /\ ev.stale[t]
    /\ ev' = [ev EXCEPT !.pc[t] = "rlock", !.L.writer = 0]

\* applyChanges applies the pending log: with an error it returns it, else it
\* increments seq, which every Do that has read seq will notice; Unlock.
ApplyReturns(t, err) ==
    /\ ev.pc[t] = "write" /\ ev.op[t] = "do" /\ ~ev.stale[t]
    /\ ev' = [ev EXCEPT !.pc[t] = "idle", !.L.writer = 0,
                        !.stale = [u \in Lockers |->
                                     IF err THEN ev.stale[u]
                                     ELSE ev.stale[u] \/ (u # t /\ ev.op[u] = "do"
                                                          /\ ev.pc[u] \in {"read", "lock", "pending"})]]

NextLock ==
    \E t \in Lockers :
        \/ \E op \in LockOps : LockCall(t, op) /\ UNCHANGED <<upd, pg>> /\ UNCHANGED edVars
        \/ RLockReturns(t) /\ UNCHANGED <<upd, pg>> /\ UNCHANGED edVars
        \/ WhereReturns(t) /\ UNCHANGED <<upd, pg>> /\ UNCHANGED edVars
        \/ \E err \in BOOLEAN : PendReturns(t, err) /\ UNCHANGED <<upd, pg>> /\ UNCHANGED edVars
        \/ LockAsks(t) /\ UNCHANGED <<upd, pg>> /\ UNCHANGED edVars
        \/ LockReturns(t) /\ UNCHANGED <<upd, pg>> /\ UNCHANGED edVars
        \/ ListReturns(t) /\ UNCHANGED <<upd, pg>> /\ UNCHANGED edVars
        \/ ApplyRetries(t) /\ UNCHANGED <<upd, pg>> /\ UNCHANGED edVars
        \/ \E err \in BOOLEAN : ApplyReturns(t, err) /\ UNCHANGED <<upd, pg>> /\ UNCHANGED edVars

SpecLock == InitLock /\ [][NextLock]_vars

\* Thread t is inside a call and cannot take its next step.
lockBlocked(t) ==
    \/ ev.pc[t] = "rlock" /\ ~canRLock(ev.L)
    \/ ev.pc[t] = "lock" /\ ~canAsk(ev.L)
    \/ ev.pc[t] = "pending" /\ ~canLock(ev.L, t)

\* Thread t holds the lock, as a reader or as the writer.
lockHeld(t) == t \in ev.L.readers \/ ev.L.writer = t

\* C34: no thread asks for the writer lock, or for any lock, while it holds
\* the reader lock: Do has released the reader lock of phase one when phase
\* two asks for the writer lock; so concurrent Do, Where, NewEditor and Close
\* never deadlock on the lock: the holders are never waiting, and whenever a
\* call waits, some call that is not waiting can go on.
C34_NoLockWhileReading ==
    /\ \A t \in Lockers : ev.pc[t] \in {"rlock", "lock", "pending"} => ~lockHeld(t)
    /\ \A t \in Lockers : lockHeld(t) => ev.pc[t] \in {"read", "write"}
    /\ (\E t \in Lockers : lockBlocked(t)) =>
           \E u \in Lockers : ev.pc[u] # "idle" /\ ~lockBlocked(u)

\* A Do that was sent back by applyChanges after another Do's commit has asked
\* for the writer lock again and waits for a reader, and a third call waits
\* behind it for the reader lock.
C34_Witness ==
    \E t \in Lockers, u \in Lockers, v \in Lockers :
        /\ ev.pc[t] = "pending" /\ ev.op[t] = "do"
        /\ u \in ev.L.readers /\ u # t
        /\ ev.pc[v] = "rlock" /\ ev.op[v] = "do" /\ ev.stale[v]

-----------------------------------------------------------------------------
\* The pager's blocks, the backing file and insertAt (SpecPager).

\* The bytes of the buffer that block i of P holds, by the reference sequence.
logicalBytes(P, i) ==
    SubSeq(pg.ref, blockStart(P.blocks, i) + 1, blockStart(P.blocks, i) + P.blocks[i].n)

\* The backing file holds the bytes of block i at [start, start + n).
onFile(P, i) ==
    /\ P.blocks[i].start + P.blocks[i].n <= Len(P.file)
    /\ SubSeq(P.file, P.blocks[i].start + 1, P.blocks[i].start + P.blocks[i].n)
         = logicalBytes(P, i)

\* C35: whenever a live block is not the cached block, the backing file holds
\* at [start, start + n) exactly the bytes of the buffer that the block
\* stands for: a dirty cached block is written back before another block is
\* loaded, also across splits and shifts of the block indexes.
C35_UncachedOnFile ==
    pg.P.err = "" =>
        \A i \in 1..Len(pg.P.blocks) : i # pg.P.cached => onFile(pg.P, i)

\* A block was split: the cached block is a dirty block in the middle, with a
\* block of the file before it and another after it.
C35_Witness ==
    /\ pg.P.err = "" /\ Len(pg.P.blocks) >= 3
    /\ pg.P.cached = 2 /\ pg.P.dirty
    /\ pg.P.blocks[1].n > 0 /\ pg.P.blocks[3].n > 0
    /\ pg.P.free # <<>>

\* The file offsets of the live blocks and of the free list.
blockStarts(P) ==
    [i \in 1..Len(P.blocks) |-> P.blocks[i].start] \o P.free

RECURSIVE sumN(_, _)
sumN(blocks, i) == IF i = 0 THEN 0 ELSE sumN(blocks, i - 1) + blocks[i].n

\* C36: after every completed insert or delete the n of the live blocks add
\* up to size, every live block has 1 <= n <= blockSize, and no file offset
\* is the start of two blocks among the live blocks and the free list.
C36_BlocksPartition ==
    pg.P.err = "" =>
        /\ sumN(pg.P.blocks, Len(pg.P.blocks)) = pg.P.size
        /\ \A i \in 1..Len(pg.P.blocks) :
              1 <= pg.P.blocks[i].n /\ pg.P.blocks[i].n <= pg.P.blockSize
        /\ \A i \in 1..Len(blockStarts(pg.P)), j \in 1..Len(blockStarts(pg.P)) :
              i # j => blockStarts(pg.P)[i] # blockStarts(pg.P)[j]

\* Two live blocks, one of them not full and one at a file offset that was
\* freed before, after a call that took the block from the free list.
C36_Witness ==
    /\ pg.P.err = "" /\ Len(pg.P.blocks) >= 2 /\ pg.P.size >= 3
    /\ \E i \in 1..Len(pg.P.blocks) : pg.P.blocks[i].n < pg.P.blockSize
    /\ pg.was.free > Len(pg.P.free)

\* The offsets of the buffer that lie in a full block.
inFullBlock(P) ==
    {at \in 0..(P.size - 1) :
        P.blocks[firstOf(holding(P, at))].n = P.blockSize}

\* insertAt(at) as insert calls it: after blockAt and get have loaded the
\* block that holds at.
insertAtCalled(P, at) == insertAt(get(P, blockAt(P, at).i), at)

\* The bytes that block i of P holds: those of the cache for the cached
\* block, those of the backing file for another.
blockBytes(P, i) ==
    IF i = P.cached THEN SubSeq(P.cache, 1, P.blocks[i].n)
    ELSE IF P.blocks[i].n = 0 THEN <<>>
    ELSE IF P.blocks[i].start + P.blocks[i].n > Len(P.file) THEN <<"missing">>
    ELSE SubSeq(P.file, P.blocks[i].start + 1, P.blocks[i].start + P.blocks[i].n)

\* insertAt(at), called for the offset at inside a full block of P, did what
\* the claim says.
insertAtKeeps(P, at, b, r) ==
    /\ r.P.err = ""
    /\ r.P.size = P.size
    /\ \A i \in 1..Len(r.P.blocks) : blockBytes(r.P, i) = logicalBytes(r.P, i)
    /\ r.P.blocks[r.i].n = 0
    /\ blockStart(r.P.blocks, r.i) = at
    /\ at # b.q0 =>
          /\ r.i = b.i + 1
          /\ r.P.blocks[b.i].n = at - b.q0
          /\ r.P.blocks[b.i].start = P.blocks[b.i].start
          /\ r.P.blocks[b.i + 2].n = P.blocks[b.i].n - (at - b.q0)
          /\ Len(r.P.blocks) = Len(P.blocks) + 2
    /\ at = b.q0 => r.i = b.i /\ Len(r.P.blocks) = Len(P.blocks) + 1

\* C37: insertAt(at), called for an offset inside a full block, leaves the
\* bytes of the buffer and its size as they were and returns the index of an
\* empty block whose offset in the buffer is at; if at is not the start of
\* the block, the split block keeps its first at - q0 bytes and a new block
\* right after the empty one holds the rest.
C37_InsertAtSplits ==
    pg.P.err = "" =>
        \A at \in inFullBlock(pg.P) :
            insertAtKeeps(pg.P, at, blockAt(pg.P, at), insertAtCalled(pg.P, at))

\* The buffer has a full block of more than one byte that is not the cached
\* block, with a dirty block in the cache: insertAt inside it splits it.
C37_Witness ==
    /\ pg.P.err = "" /\ pg.P.dirty /\ pg.P.cached # 0
    /\ \E at \in inFullBlock(pg.P) :
          /\ at # blockAt(pg.P, at).q0
          /\ blockAt(pg.P, at).i # pg.P.cached
          /\ insertAtCalled(pg.P, at).i = blockAt(pg.P, at).i + 1

-----------------------------------------------------------------------------
\* The header of a journal entry, written and read back (SpecLog).

\* The header that push writes for what was pushed as w.
headerOf(w) ==
    [from |-> I64(w.a.from), to |-> add64(I64(w.a.from), w.n), size0 |-> I64(size(w.a)),
     seq |-> w.seq]

\* The low 32-bit half of x has its top bit clear.
lowHalfPositive(x) == x[2] < 32768

\* C38: writing the header of a journal entry and reading it back gives the
\* same from, to, size0 and seq for all non-negative 64-bit from, to and
\* size0, those with the top bit of the low 32-bit half set (2^31 and above)
\* included.
C38_HeaderRoundTrip ==
    \A i \in 1..Len(ev.pushed) :
        readHeader(headerInsert(headerOf(ev.pushed[i]))) = headerOf(ev.pushed[i])

\* The same for the headers whose low halves have the top bit clear, 2^32
\* and above included.
HeaderRoundTripLowPositive ==
    \A i \in 1..Len(ev.pushed) :
        lowHalfPositive(headerOf(ev.pushed[i]).to) =>
            readHeader(headerInsert(headerOf(ev.pushed[i]))) = headerOf(ev.pushed[i])

\* A header with to = 2^32 or more was pushed and reads back as it was written.
HeaderAbove32 ==
    \E i \in 1..Len(ev.pushed) :
        /\ headerOf(ev.pushed[i]).to[3] > 0
        /\ readHeader(headerInsert(headerOf(ev.pushed[i]))) = headerOf(ev.pushed[i])

=====
